---- MODULE Spec2Model ----
(***************************************************************************)
(* Model of the anti2api gateway: the StreamWriter (UTF-8 carry-over,      *)
(* role announcement, finish), the upstream stream reader                  *)
(* ProcessStreamResponse, the true-streaming and bypass handlers, and the  *)
(* request converter.                                                      *)
(***************************************************************************)
EXTENDS Integers, Sequences, FiniteSets, TLC

VARIABLES
    sw,            \* the StreamWriter: sink w, sentRole, contentBuffer, reasoningBuffer
    mu,            \* owner of StreamWriter.mu ("none" when unlocked)
    fedContent,    \* bytes passed to WriteContent so far
    fedReasoning,  \* bytes passed to WriteReasoning so far
    finished,      \* WriteFinish has returned
    lastExtract,   \* argument and result of an extractValidUTF8 call
    maxCarry,      \* longest carry-over buffer left behind by a write so far
    pc,            \* per goroutine: where it is inside a StreamWriter method
    op,            \* per goroutine: the StreamWriter method it is calling
    seen,          \* per goroutine: the value of sentRole read by writeRoleLocked
    ret,           \* per goroutine: the error returned by its last method call
    wire,          \* the pieces of events that reached the sink, and those yet to be written
    at,            \* per goroutine: its position in the code that calls the writer
    ncalls,        \* number of method calls started
    upstream,      \* what api.GenerateContent returned (<<>> before it returns)
    openAIResp,    \* the result of ConvertToOpenAIResponse (<<>> before)
    doneClosed,    \* the channel done has been closed
    ctxDone,       \* the request context is cancelled
    ticks,         \* number of ticks of the heartbeat ticker taken
    usage,         \* ProcessStreamResponse: the usage captured so far
    toolCalls,     \* ProcessStreamResponse: the accumulated tool calls
    handlerToolCalls, \* handleStreamRequest: toolCalls, set by the callback
    chunks,        \* the chunks passed to the callback so far, in order
    recvCalls,     \* the function_call parts of the events processed so far
    nlines,        \* number of upstream lines read
    lineKinds,     \* the kinds of the upstream lines read, in order
    lastLine,      \* kind, usage metadata and candidate count of the line read last
    tailLine,      \* the unterminated line returned with io.EOF (<<>> if none)
    streamErr,     \* the error returned by ProcessStreamResponse
    convReq,       \* the last request given to ConvertOpenAIToAntigravity (<<>> if none)
    convOut,       \* the request it returned (<<>> if none)
    arrays,        \* the backing arrays of the stop sequence slices
    builds,        \* per request task: its call of buildGenerationConfig
    stopLog,       \* the stop sequences sent upstream, with the request's own
    pool,          \* the credential pool and the endpoint registry
    acq,           \* per goroutine: its acquisition or admin call in progress
    served         \* what the pool and the entry handlers have answered, in order

vars == <<sw, mu, fedContent, fedReasoning, finished, lastExtract, maxCarry,
          pc, op, seen, ret, wire, at, ncalls,
          upstream, openAIResp, doneClosed, ctxDone, ticks,
          usage, toolCalls, handlerToolCalls, chunks, recvCalls, nlines, lineKinds, lastLine,
          tailLine,
          streamErr,
          convReq, convOut, arrays, builds, stopLog, pool, acq, served>>

streamVars == <<usage, toolCalls, handlerToolCalls, chunks, recvCalls, nlines,
                lineKinds, lastLine, tailLine, streamErr>>
stopVars == <<arrays, builds, stopLog>>
convVars == <<convReq, convOut, stopVars>>
poolVars == <<pool, acq, served>>

bypassVars == <<at, upstream, openAIResp, doneClosed, ctxDone, ticks>>

utf8Vars == <<fedContent, fedReasoning, finished, lastExtract, maxCarry>>
callVars == <<pc, op, seen, ret, wire>>

-----------------------------------------------------------------------------
(* Bounds *)

MaxLen == 4        \* most bytes passed to one writer, both channels together
MaxChunk == 2      \* longest byte string passed to one write call

\* Representative byte values: ASCII 'A', continuation 0x80, the lead bytes
\* 0xC3, 0xE4 and 0xF1 of 2-, 3- and 4-byte characters, and 0xFF (never valid).
ByteAlphabet == {65, 128, 195, 228, 241, 255}

BoundedSeq(S, n) == UNION {[1..k -> S] : k \in 0..n}

-----------------------------------------------------------------------------
(* unicode/utf8 *)

IsCont(b) == b >= 128 /\ b <= 191

RECURSIVE Utf8ValidFrom(_, _)
Utf8ValidFrom(d, i) ==
    IF i > Len(d) THEN TRUE
    ELSE LET b == d[i]
             n == Len(d) - i + 1
             c(k) == d[i + k]
         IN  IF b < 128 THEN Utf8ValidFrom(d, i + 1)
             ELSE IF b >= 194 /\ b <= 223
                  THEN n >= 2 /\ IsCont(c(1)) /\ Utf8ValidFrom(d, i + 2)
             ELSE IF b >= 224 /\ b <= 239
                  THEN /\ n >= 3
                       /\ c(1) >= (IF b = 224 THEN 160 ELSE 128)
                       /\ c(1) <= (IF b = 237 THEN 159 ELSE 191)
                       /\ IsCont(c(2))
                       /\ Utf8ValidFrom(d, i + 3)
             ELSE IF b >= 240 /\ b <= 244
                  THEN /\ n >= 4
                       /\ c(1) >= (IF b = 240 THEN 144 ELSE 128)
                       /\ c(1) <= (IF b = 244 THEN 143 ELSE 191)
                       /\ IsCont(c(2))
                       /\ IsCont(c(3))
                       /\ Utf8ValidFrom(d, i + 4)
             ELSE FALSE

Utf8Valid(d) == Utf8ValidFrom(d, 1)

-----------------------------------------------------------------------------
(* extractValidUTF8 *)

Min(a, b) == IF a < b THEN a ELSE b

\* The first loop: look at the last checkLen bytes for a lead byte whose
\* character is not complete.  The result is the index (1-based) of that lead
\* byte, or 0 when the loop ends without returning.
RECURSIVE ScanTail(_, _, _)
ScanTail(data, i, checkLen) ==
    IF i > checkLen THEN 0
    ELSE LET idx == Len(data) - i + 1
             b == data[idx]
             expectedLen == IF b >= 240 THEN 4 ELSE IF b >= 224 THEN 3 ELSE 2
             actualLen == Len(data) - idx + 1
         IN  IF b >= 192
             THEN IF actualLen < expectedLen THEN idx ELSE 0
             ELSE IF b >= 128 /\ b < 192
                  THEN ScanTail(data, i + 1, checkLen)
                  ELSE 0

\* The second loop: move bytes from the end of data to the front of remaining
\* until data is valid.  When a non-empty valid prefix is found it is returned
\* with a nil remaining; the bytes moved so far are returned only when data
\* has been emptied.
RECURSIVE StripInvalid(_, _)
StripInvalid(data, remaining) ==
    IF Len(data) = 0 THEN [valid |-> <<>>, remaining |-> remaining]
    ELSE IF Utf8Valid(data) THEN [valid |-> data, remaining |-> <<>>]
    ELSE StripInvalid(SubSeq(data, 1, Len(data) - 1),
                      <<data[Len(data)]>> \o remaining)

extractValidUTF8_noCarry(data) ==
    [valid |-> data, remaining |-> <<>>]

extractValidUTF8(data) ==
    IF Len(data) = 0 THEN [valid |-> <<>>, remaining |-> <<>>]
    ELSE IF Utf8Valid(data) THEN [valid |-> data, remaining |-> <<>>]
    ELSE LET idx == ScanTail(data, 1, Min(4, Len(data)))
         IN  IF idx > 0
             THEN [valid |-> SubSeq(data, 1, idx - 1),
                   remaining |-> SubSeq(data, idx, Len(data))]
             ELSE StripInvalid(data, <<>>)

-----------------------------------------------------------------------------
(* The output sink and the events written to it *)

Event(type, payload) == [type |-> type, payload |-> payload]

RoleEvent == Event("role", <<>>)
ContentEvent(bytes) == Event("content", bytes)
ReasoningEvent(bytes) == Event("reasoning", bytes)
ToolCallsEvent(calls) == Event("tool_calls", calls)
HeartbeatEvent == Event("heartbeat", <<>>)
FinishEvent(reason, u) == Event("finish", <<reason, u>>)
DoneEvent == Event("done", <<>>)

\* The ResponseWriter: the events received by the client, whether the
\* connection is broken (every write then fails), and the events whose write
\* failed.
NewSink == [out |-> <<>>, broken |-> FALSE, refused |-> <<>>]

\* w.Write
Write(w, ev) ==
    IF w.broken THEN [w |-> [w EXCEPT !.refused = Append(@, ev)], err |-> TRUE]
    ELSE [w |-> [w EXCEPT !.out = Append(@, ev)], err |-> FALSE]

WriteStreamData(w, chunk) == Write(w, chunk)

WriteStreamDone(w) == Write(w, DoneEvent).w

ErrorEvent(errMsg) == Event("error", errMsg)

WriteStreamError(w, errMsg) ==
    WriteStreamDone(WriteStreamData(w, ErrorEvent(errMsg)).w)

-----------------------------------------------------------------------------
(* StreamWriter: each method is given as the writer state it leaves behind *)
(* and the error it returns; the caller holds sw.mu while it runs.         *)

NewStreamWriter ==
    [w |-> NewSink, sentRole |-> FALSE,
     contentBuffer |-> <<>>, reasoningBuffer |-> <<>>]

Ret(s, e) == [sw |-> s, err |-> e]

\* writeRoleLocked, given the value of sentRole it has read
writeRoleLockedRead(s, sentRole) ==
    IF sentRole THEN Ret(s, FALSE)
    ELSE LET r == WriteStreamData(s.w, RoleEvent)
         IN  Ret([s EXCEPT !.sentRole = TRUE, !.w = r.w], r.err)

writeRoleLocked(s) == writeRoleLockedRead(s, s.sentRole)

WriteRole(s) == writeRoleLocked(s)

WriteContentBody_clearsReasoning(s1, content) ==
    LET e == extractValidUTF8(s1.contentBuffer \o content)
        s2 == [s1 EXCEPT !.contentBuffer = e.remaining, !.reasoningBuffer = <<>>]
    IN  IF e.valid = <<>> THEN Ret(s2, FALSE)
        ELSE LET r == WriteStreamData(s2.w, ContentEvent(e.valid))
             IN  Ret([s2 EXCEPT !.w = r.w], r.err)

\* WriteContent after its call of writeRoleLocked
WriteContentBody(s1, content) ==
    LET e == extractValidUTF8(s1.contentBuffer \o content)
        s2 == [s1 EXCEPT !.contentBuffer = e.remaining]
    IN  IF e.valid = <<>> THEN Ret(s2, FALSE)
        ELSE LET r == WriteStreamData(s2.w, ContentEvent(e.valid))
             IN  Ret([s2 EXCEPT !.w = r.w], r.err)

WriteContent(s, content) == WriteContentBody(writeRoleLocked(s).sw, content)

\* WriteReasoning after its call of writeRoleLocked
WriteReasoningBody(s1, reasoning) ==
    LET e == extractValidUTF8(s1.reasoningBuffer \o reasoning)
        s2 == [s1 EXCEPT !.reasoningBuffer = e.remaining]
    IN  IF e.valid = <<>> THEN Ret(s2, FALSE)
        ELSE LET r == WriteStreamData(s2.w, ReasoningEvent(e.valid))
             IN  Ret([s2 EXCEPT !.w = r.w], r.err)

WriteReasoning(s, reasoning) == WriteReasoningBody(writeRoleLocked(s).sw, reasoning)

\* WriteToolCalls after its call of writeRoleLocked
WriteToolCallsBody(s1, calls) ==
    LET r == WriteStreamData(s1.w, ToolCallsEvent(calls))
    IN  Ret([s1 EXCEPT !.w = r.w], r.err)

WriteToolCalls(s, calls) == WriteToolCallsBody(writeRoleLocked(s).sw, calls)

flushLocked(s) ==
    LET c == IF Len(s.contentBuffer) > 0
             THEN LET r == WriteStreamData(s.w, ContentEvent(s.contentBuffer))
                  IN  Ret([s EXCEPT !.contentBuffer = <<>>, !.w = r.w], r.err)
             ELSE Ret(s, FALSE)
    IN  IF c.err THEN c
        ELSE IF Len(c.sw.reasoningBuffer) > 0
             THEN LET r == WriteStreamData(c.sw.w, ReasoningEvent(c.sw.reasoningBuffer))
                  IN  Ret([c.sw EXCEPT !.reasoningBuffer = <<>>, !.w = r.w], r.err)
             ELSE c

WriteFinish_noSentinel(s, reason, u) ==
    LET s1 == flushLocked(s).sw
        r == WriteStreamData(s1.w, FinishEvent(reason, u))
    IN  Ret([s1 EXCEPT !.w = r.w], r.err)

WriteFinish(s, reason, u) ==
    LET s1 == flushLocked(s).sw
        r == WriteStreamData(s1.w, FinishEvent(reason, u))
    IN  IF r.err THEN Ret([s1 EXCEPT !.w = r.w], TRUE)
        ELSE Ret([s1 EXCEPT !.w = WriteStreamDone(r.w)], FALSE)

\* WriteHeartbeat after its call of writeRoleLocked
WriteHeartbeatBody(s1) ==
    LET r == WriteStreamData(s1.w, HeartbeatEvent)
    IN  Ret([s1 EXCEPT !.w = r.w], r.err)

WriteHeartbeat(s) == WriteHeartbeatBody(writeRoleLocked(s).sw)

-----------------------------------------------------------------------------
(* Reading the wire *)

RECURSIVE ConcatOf(_, _)
\* the bytes of all events of the given type, in wire order
ConcatOf(out, type) ==
    IF out = <<>> THEN <<>>
    ELSE (IF Head(out).type = type THEN Head(out).payload ELSE <<>>)
         \o ConcatOf(Tail(out), type)

CountOf(out, type) == Cardinality({i \in 1..Len(out) : out[i].type = type})


-----------------------------------------------------------------------------------------------------------------------------------------------------
(* Goroutines calling the methods of one StreamWriter.  A call is three     *)
(* steps: sw.mu.Lock(); the read of sentRole in writeRoleLocked; the rest   *)
(* of the method together with the deferred sw.mu.Unlock().                 *)

NoExtract ==
    [data |-> <<>>, valid |-> <<>>, remaining |-> <<>>, applied |-> FALSE]

Threads == {"h", "hb"}     \* the request handler and the heartbeat goroutine

NoOp == [m |-> "none", arg |-> <<>>]
Op(m, arg) == [m |-> m, arg |-> arg]

\* nothing has reached the sink and no goroutine is writing
NoWire == [pieces |-> <<>>, pending |-> [t \in Threads |-> <<>>]]

CallInit ==
    /\ mu = "none"
    /\ pc = [t \in Threads |-> "run"]
    /\ op = [t \in Threads |-> NoOp]
    /\ seen = [t \in Threads |-> FALSE]
    /\ ret = [t \in Threads |-> FALSE]
    /\ wire = NoWire

\* the goroutine starts a method call
Call(t, o) ==
    /\ pc[t] = "run"
    /\ pc' = [pc EXCEPT ![t] = "wait"]
    /\ op' = [op EXCEPT ![t] = o]
    /\ UNCHANGED <<poolVars, sw, mu, seen, ret, wire>>

\* sync.Mutex: Lock blocks while another goroutine holds the mutex
CanLock_noMutex(m) == TRUE

CanLock(m) == m = "none"

Lock_noWait(t) ==
    /\ pc[t] = "wait"
    /\ mu' = t
    /\ pc' = [pc EXCEPT ![t] = "locked"]
    /\ UNCHANGED <<poolVars, sw, op, seen, ret, wire>>

Lock(t) ==
    /\ pc[t] = "wait"
    /\ CanLock(mu)
    /\ mu' = t
    /\ pc' = [pc EXCEPT ![t] = "locked"]
    /\ UNCHANGED <<poolVars, sw, op, seen, ret, wire>>

CallsWriteRole(m) == m # "WriteFinish"

\* writeRoleLocked reads sw.sentRole
ReadSentRole(t) ==
    /\ pc[t] = "locked"
    /\ CallsWriteRole(op[t].m)
    /\ seen' = [seen EXCEPT ![t] = sw.sentRole]
    /\ pc' = [pc EXCEPT ![t] = "checked"]
    /\ UNCHANGED <<poolVars, sw, mu, op, ret, wire>>

\* the effect of a method once sentRole has been read
ApplyOp(s, o, sentRole) ==
    LET s1 == writeRoleLockedRead(s, sentRole)
    IN  CASE o.m = "WriteRole" -> s1
          [] o.m = "WriteHeartbeat" -> WriteHeartbeatBody(s1.sw)
          [] o.m = "WriteContent" -> WriteContentBody(s1.sw, o.arg)
          [] o.m = "WriteReasoning" -> WriteReasoningBody(s1.sw, o.arg)
          [] o.m = "WriteToolCalls" -> WriteToolCallsBody(s1.sw, o.arg)
          [] o.m = "WriteFinish" -> WriteFinish(s, o.arg[1], o.arg[2])

\* the rest of the method and the deferred Unlock
Complete(t) ==
    /\ \/ pc[t] = "checked"
       \/ pc[t] = "locked" /\ ~CallsWriteRole(op[t].m)
    /\ LET r == ApplyOp(sw, op[t], seen[t])
       IN  /\ sw' = r.sw
           /\ ret' = [ret EXCEPT ![t] = r.err]
    /\ mu' = "none"
    /\ pc' = [pc EXCEPT ![t] = "run"]
    /\ op' = [op EXCEPT ![t] = NoOp]
    /\ UNCHANGED <<seen, wire>>

-----------------------------------------------------------------------------
(* Two goroutines calling WriteRole, WriteHeartbeat, WriteContent,          *)
(* WriteReasoning and WriteToolCalls of one writer in any order             *)

MaxCalls == 3      \* most method calls made on the writer

ConcOps ==
    {Op("WriteRole", <<>>), Op("WriteHeartbeat", <<>>),
     Op("WriteContent", <<65>>), Op("WriteReasoning", <<65>>),
     Op("WriteToolCalls", <<"call_1">>)}

\* the variables of the byte driver, when it is not running
Utf8Idle ==
    /\ fedContent = <<>>
    /\ fedReasoning = <<>>
    /\ finished = FALSE
    /\ lastExtract = NoExtract
    /\ maxCarry = 0

\* the variables of the bypass handler, when it is not running
BypassIdle ==
    /\ at = [t \in Threads |-> "none"]
    /\ upstream = <<>>
    /\ openAIResp = <<>>
    /\ doneClosed = FALSE
    /\ ctxDone = FALSE
    /\ ticks = 0

\* the variables of the upstream stream reader, before it runs
\* the pool variables, for the parts that do not use the pool
PoolIdle ==
    /\ pool = <<>>
    /\ acq = <<>>
    /\ served = <<>>

StreamIdle ==
    /\ usage = <<>>
    /\ toolCalls = <<>>
    /\ handlerToolCalls = <<>>
    /\ chunks = <<>>
    /\ recvCalls = <<>>
    /\ nlines = 0
    /\ lineKinds = <<>>
    /\ lastLine = <<>>
    /\ tailLine = <<>>
    /\ streamErr = FALSE

\* the variables of the request converter, before it runs
StopIdle ==
    /\ arrays = <<>>
    /\ builds = <<>>
    /\ stopLog = <<>>

ConvIdle ==
    /\ convReq = <<>>
    /\ convOut = <<>>
    /\ StopIdle

ConcInit ==
    /\ sw = NewStreamWriter
    /\ CallInit
    /\ ncalls = 0
    /\ Utf8Idle
    /\ BypassIdle
    /\ StreamIdle
    /\ PoolIdle
    /\ ConvIdle

ConcCall ==
    /\ ncalls < MaxCalls
    /\ \E t \in Threads, o \in ConcOps : Call(t, o)
    /\ ncalls' = ncalls + 1
    /\ UNCHANGED <<poolVars, utf8Vars, bypassVars, streamVars, convVars>>

ConcLock ==
    \E t \in Threads : Lock(t) /\ UNCHANGED <<poolVars, ncalls, utf8Vars, bypassVars, streamVars, convVars>>

ConcReadSentRole ==
    \E t \in Threads : ReadSentRole(t) /\ UNCHANGED <<poolVars, ncalls, utf8Vars, bypassVars, streamVars, convVars>>

ConcComplete ==
    \E t \in Threads : Complete(t) /\ UNCHANGED <<poolVars, ncalls, utf8Vars, bypassVars, streamVars, convVars>>

ConcNext == ConcCall \/ ConcLock \/ ConcReadSentRole \/ ConcComplete

SpecConc == ConcInit /\ [][ConcNext]_vars

\* C7: the role announcement is written exactly once and is the first event
\* on the wire, before every delta event.
C7_RoleOnceAndFirst ==
    sw.w.out # <<>> =>
        /\ sw.w.out[1] = RoleEvent
        /\ CountOf(sw.w.out, "role") = 1

\* both goroutines have completed a call, the heartbeat being among them
C7_Witness ==
    /\ ncalls = MaxCalls
    /\ \A t \in Threads : pc[t] = "run"
    /\ Len(sw.w.out) = MaxCalls + 1
    /\ CountOf(sw.w.out, "heartbeat") >= 1
    /\ CountOf(sw.w.out, "content") >= 1

-----------------------------------------------------------------------------
(* A single-threaded driver that passes byte strings to one writer *)

Utf8Init ==
    /\ sw = NewStreamWriter
    /\ Utf8Idle
    /\ CallInit
    /\ ncalls = 0
    /\ BypassIdle
    /\ StreamIdle
    /\ PoolIdle
    /\ ConvIdle

Max(a, b) == IF a > b THEN a ELSE b

Chunks == BoundedSeq(ByteAlphabet, MaxChunk)

Utf8WriteContent ==
    /\ ~finished
    /\ \E content \in Chunks :
        /\ Len(fedContent) + Len(fedReasoning) + Len(content) <= MaxLen
        /\ LET r == WriteContent(sw, content)
           IN  /\ sw' = r.sw
               /\ fedContent' = fedContent \o content
               /\ maxCarry' = Max(maxCarry, Len(r.sw.contentBuffer))
    /\ UNCHANGED <<poolVars, mu, fedReasoning, finished, lastExtract, callVars, ncalls,
                   bypassVars, streamVars, convVars>>

Utf8WriteReasoning ==
    /\ ~finished
    /\ \E reasoning \in Chunks :
        /\ Len(fedContent) + Len(fedReasoning) + Len(reasoning) <= MaxLen
        /\ LET r == WriteReasoning(sw, reasoning)
           IN  /\ sw' = r.sw
               /\ fedReasoning' = fedReasoning \o reasoning
               /\ maxCarry' = Max(maxCarry, Len(r.sw.reasoningBuffer))
    /\ UNCHANGED <<poolVars, mu, fedContent, finished, lastExtract, callVars, ncalls,
                   bypassVars, streamVars, convVars>>

Utf8WriteFinish ==
    /\ ~finished
    /\ sw' = WriteFinish(sw, "stop", <<>>).sw
    /\ finished' = TRUE
    /\ UNCHANGED <<poolVars, mu, fedContent, fedReasoning, lastExtract, maxCarry,
                   callVars, ncalls, bypassVars, streamVars, convVars>>

Utf8Next == Utf8WriteContent \/ Utf8WriteReasoning \/ Utf8WriteFinish

SpecUtf8 == Utf8Init /\ [][Utf8Next]_vars

-----------------------------------------------------------------------------
(* Properties of the text channels *)

ContBytes == {b \in ByteAlphabet : IsCont(b)}

\* d is the beginning of some valid UTF-8 text: at most the last character
\* is cut short.
IsPrefixOfValid(d) == \E s \in BoundedSeq(ContBytes, 3) : Utf8Valid(d \o s)

AllValid(out, type) ==
    \A i \in 1..Len(out) : out[i].type = type => Utf8Valid(out[i].payload)

LongestValidPrefix(d) ==
    LET k == CHOOSE k \in 0..Len(d) :
                 /\ Utf8Valid(SubSeq(d, 1, k))
                 /\ \A j \in (k + 1)..Len(d) : ~Utf8Valid(SubSeq(d, 1, j))
    IN  SubSeq(d, 1, k)

ChannelUtf8Safe(type, fed) ==
    /\ (~finished /\ IsPrefixOfValid(fed)) => AllValid(sw.w.out, type)
    /\ (finished /\ Utf8Valid(fed)) =>
           /\ AllValid(sw.w.out, type)
           /\ ConcatOf(sw.w.out, type) = fed

\* C3: a valid UTF-8 text passed to one channel in pieces cut at arbitrary
\* byte boundaries only produces valid UTF-8 deltas before WriteFinish, and
\* after WriteFinish the deltas of that channel concatenate to the text.
C3_Utf8SafeSplit ==
    /\ ChannelUtf8Safe("content", fedContent)
    /\ ChannelUtf8Safe("reasoning", fedReasoning)

\* a 4-byte character was passed to WriteContent in pieces, one cut coming
\* after its third byte, and the stream was finished
C3_Witness ==
    /\ finished
    /\ fedContent = <<241, 128, 128, 128>>
    /\ maxCarry = 3
    /\ ConcatOf(sw.w.out, "content") = fedContent

\* C4: no byte passed to a text channel is dropped: what was written for the
\* channel, followed by its carry-over, is what was passed, in order, and
\* after WriteFinish both carry-over buffers are empty.
C4_NoByteDropped ==
    /\ ConcatOf(sw.w.out, "content") \o sw.contentBuffer = fedContent
    /\ ConcatOf(sw.w.out, "reasoning") \o sw.reasoningBuffer = fedReasoning
    /\ finished => sw.contentBuffer = <<>> /\ sw.reasoningBuffer = <<>>

\* C5: after every write the carry-over buffer of each channel holds at most
\* 3 bytes.
C5_CarryAtMost3 ==
    /\ Len(sw.contentBuffer) <= 3
    /\ Len(sw.reasoningBuffer) <= 3

\* extractValidUTF8 on its own: the argument is any byte string of at most
\* MaxLen bytes, and the one step is the call.
ExtractInit ==
    /\ sw = NewStreamWriter
    /\ fedContent = <<>>
    /\ fedReasoning = <<>>
    /\ finished = FALSE
    /\ maxCarry = 0
    /\ lastExtract \in {[NoExtract EXCEPT !.data = d] :
                            d \in BoundedSeq(ByteAlphabet, MaxLen)}
    /\ CallInit
    /\ ncalls = 0
    /\ BypassIdle
    /\ StreamIdle
    /\ PoolIdle
    /\ ConvIdle

Extract ==
    /\ ~lastExtract.applied
    /\ LET e == extractValidUTF8(lastExtract.data)
       IN  lastExtract' = [lastExtract EXCEPT !.valid = e.valid,
                                              !.remaining = e.remaining,
                                              !.applied = TRUE]
    /\ UNCHANGED <<poolVars, sw, mu, fedContent, fedReasoning, finished, maxCarry,
                   callVars, ncalls, bypassVars, streamVars, convVars>>

ExtractNext == Extract

SpecExtract == ExtractInit /\ [][ExtractNext]_vars

\* C6: extractValidUTF8(d) returns the longest valid UTF-8 prefix of d and
\* the rest of d.
C6_LongestValidPrefix ==
    lastExtract.applied =>
        /\ lastExtract.valid = LongestValidPrefix(lastExtract.data)
        /\ lastExtract.valid \o lastExtract.remaining = lastExtract.data

-----------------------------------------------------------------------------
(* Upstream responses and ConvertToOpenAIResponse.  A pointer that may be   *)
(* nil is a sequence of length 0 or 1; a text is a sequence of bytes.       *)

SignedPart(text, thought, functionCall, thoughtSignature) ==
    [text |-> text, thought |-> thought, functionCall |-> functionCall,
     thoughtSignature |-> thoughtSignature]

Part(text, thought, functionCall) == SignedPart(text, thought, functionCall, "")

\* JSON.  A number literal is n, or 2^53 + n when big; a JSON text is an
\* object with its members in written order, with or without white space,
\* or a text that is not an object.  A decoded object (map[string]interface{})
\* is a function from its keys to float64 numbers; keys are byte codes.
Num(n) == [big |-> FALSE, n |-> n]

BigNum(n) == [big |-> TRUE, n |-> n]

\* strconv.ParseFloat: integers up to 2^53 are exact, those between 2^53 and
\* 2^54 are rounded to the nearest even multiple of 2
Float64(num) ==
    IF ~num.big \/ num.n % 2 = 0 THEN num
    ELSE IF ((num.n - 1) \div 2) % 2 = 0 THEN BigNum(num.n - 1)
    ELSE BigNum(num.n + 1)

Member(key, num) == [key |-> key, num |-> num]

JsonObject(members, ws) == [kind |-> "object", members |-> members, ws |-> ws]

JsonInvalid == [kind |-> "invalid", members |-> <<>>, ws |-> FALSE]

MemberKeys(members) == {members[i].key : i \in 1..Len(members)}

\* the last member written with key k
LastWith(members, k) ==
    members[CHOOSE i \in 1..Len(members) :
                /\ members[i].key = k
                /\ \A j \in (i + 1)..Len(members) : members[j].key # k]

\* json.Unmarshal of a text into a map[string]interface{}
JsonUnmarshal(text) ==
    [err |-> text.kind # "object",
     args |-> [k \in MemberKeys(text.members) |->
                  Float64(LastWith(text.members, k).num)]]

RECURSIVE SortedMembers(_, _)
SortedMembers(args, keys) ==
    IF keys = {} THEN <<>>
    ELSE LET k == CHOOSE k \in keys : \A j \in keys : k <= j
         IN  <<Member(k, args[k])>> \o SortedMembers(args, keys \ {k})

\* json.Marshal of a map: keys sorted, no white space
JsonMarshal(args) == JsonObject(SortedMembers(args, DOMAIN args), FALSE)

EmptyArgs == [k \in {} |-> Num(0)]

FunctionCall(id, name, args) == [id |-> id, name |-> name, args |-> args]

GeneratedToolCallID == "call_generated"

OpenAIToolCall(fc, thoughtSignature) ==
    [id |-> IF fc.id = "" THEN GeneratedToolCallID ELSE fc.id,
     name |-> fc.name,
     arguments |-> JsonMarshal(fc.args),
     thoughtSignature |-> thoughtSignature]

RECURSIVE ConvertParts(_, _)
\* the loop over the parts of the first candidate
ConvertParts(parts, acc) ==
    IF parts = <<>> THEN acc
    ELSE LET part == Head(parts)
             next ==
                 IF part.thought
                 THEN [acc EXCEPT !.thinkingContent = @ \o part.text]
                 ELSE IF part.text # <<>>
                 THEN [acc EXCEPT !.content = @ \o part.text]
                 ELSE IF part.functionCall # <<>>
                 THEN [acc EXCEPT !.toolCalls =
                          Append(@, OpenAIToolCall(part.functionCall[1],
                                                   part.thoughtSignature))]
                 ELSE acc
         IN  ConvertParts(Tail(parts), next)

UsageMetadata(n) ==
    [promptTokenCount |-> n, candidatesTokenCount |-> n + 1,
     totalTokenCount |-> 2 * n + 1, thoughtsTokenCount |-> 1]

\* a nil *UsageMetadata gives a nil *Usage
ConvertUsage(metadata) ==
    IF metadata = <<>> THEN <<>>
    ELSE << [promptTokens |-> metadata[1].promptTokenCount,
             completionTokens |-> metadata[1].candidatesTokenCount,
             totalTokens |-> metadata[1].totalTokenCount] >>

\* defined when the response holds at least one candidate
ConvertToOpenAIResponse(resp) ==
    LET r == ConvertParts(resp.candidates[1].parts,
                          [content |-> <<>>, thinkingContent |-> <<>>,
                           toolCalls |-> <<>>])
        finishReason == IF Len(r.toolCalls) > 0 THEN "tool_calls" ELSE "stop"
    IN  [choices |-> << [message |-> [content |-> r.content,
                                      toolCalls |-> r.toolCalls,
                                      reasoning |-> r.thinkingContent],
                         finishReason |-> <<finishReason>>] >>,
         usage |-> ConvertUsage(resp.usage)]

-----------------------------------------------------------------------------
(* handleBypassStream and its heartbeat goroutine *)

MaxTicks == 2      \* most ticks of the heartbeat ticker

ThoughtPart == Part(<<84>>, TRUE, <<>>)
TextPart == Part(<<65>>, FALSE, <<>>)
CallPart == Part(<<>>, FALSE, <<FunctionCall("call_1", "f", EmptyArgs)>>)
SignedCallPart ==
    SignedPart(<<>>, FALSE, <<FunctionCall("call_3", "f", EmptyArgs)>>, "sig_A")

BypassPartLists ==
    {<<>>, <<ThoughtPart>>, <<TextPart>>, <<CallPart>>, <<SignedCallPart>>,
     <<ThoughtPart, TextPart>>, <<TextPart, CallPart>>,
     <<ThoughtPart, TextPart, CallPart>>}

Usages == {<<>>, <<UsageMetadata(7)>>}

\* an error returned by the upstream call: a typed *api.APIError with the
\* upstream status and message, another error, or the cancellation of ctx
UpstreamError(kind, status, message) ==
    [err |-> TRUE, kind |-> kind, status |-> status, message |-> message,
     candidates |-> <<>>, usage |-> <<>>]

UpstreamResponse(candidates, u) ==
    [err |-> FALSE, kind |-> "", status |-> 0, message |-> <<>>,
     candidates |-> candidates, usage |-> u]

Canceled == UpstreamError("canceled", 0, <<67>>)

UpstreamErrors ==
    {UpstreamError("api", 429, <<77>>), UpstreamError("net", 0, <<78>>), Canceled}

\* what the upstream call returns under a context that is cancelled or not
ErrorsUnder(cancelled) == IF cancelled THEN {Canceled} ELSE UpstreamErrors \ {Canceled}

\* what api.GenerateContent can return: an error, or a response with no
\* candidate or one candidate
UpstreamResults ==
    UpstreamErrors
    \cup {UpstreamResponse(<<>>, u) : u \in Usages}
    \cup {UpstreamResponse(<<[parts |-> ps]>>, u) :
              ps \in BypassPartLists, u \in Usages}

\* err.Error()
ErrorString(e) == e.message

getErrorStatus(e) == IF e.kind = "api" THEN e.status ELSE 500

ErrorText(e) == <<69>> \o ErrorString(e)     \* "Error: " + err.Error()

BypassInit ==
    /\ sw = NewStreamWriter
    /\ CallInit
    /\ ncalls = 0
    /\ Utf8Idle
    /\ at = [t \in Threads |-> IF t = "h" THEN "start" ELSE "unborn"]
    /\ upstream = <<>>
    /\ openAIResp = <<>>
    /\ doneClosed = FALSE
    /\ ctxDone = FALSE
    /\ ticks = 0
    /\ StreamIdle
    /\ PoolIdle
    /\ ConvIdle

HandlerAt(l) == at["h"] = l /\ pc["h"] = "run"
Goto(t, l) == at' = [at EXCEPT ![t] = l]

\* streamWriter.WriteHeartbeat(), the first heartbeat
BypassFirstHeartbeat ==
    /\ HandlerAt("start")
    /\ Call("h", Op("WriteHeartbeat", <<>>))
    /\ Goto("h", "first_ret")
    /\ UNCHANGED <<poolVars, ncalls, utf8Vars, streamVars, convVars, upstream, openAIResp, doneClosed, ctxDone, ticks>>

\* the first heartbeat failed: return
BypassFirstHeartbeatFailed ==
    /\ HandlerAt("first_ret")
    /\ ret["h"]
    /\ Goto("h", "returned")
    /\ UNCHANGED <<poolVars, sw, mu, callVars, ncalls, utf8Vars, streamVars, convVars, upstream, openAIResp,
                   doneClosed, ctxDone, ticks>>

BypassSpawn_unchecked ==
    /\ HandlerAt("first_ret")
    /\ at' = [at EXCEPT !["h"] = "upstream", !["hb"] = "select"]
    /\ UNCHANGED <<poolVars, sw, mu, callVars, ncalls, utf8Vars, streamVars, convVars, upstream, openAIResp,
                   doneClosed, ctxDone, ticks>>

\* context.WithCancel, make(chan struct{}), go func() { ... }()
BypassSpawn ==
    /\ HandlerAt("first_ret")
    /\ ~ret["h"]
    /\ at' = [at EXCEPT !["h"] = "upstream", !["hb"] = "select"]
    /\ UNCHANGED <<poolVars, sw, mu, callVars, ncalls, utf8Vars, streamVars, convVars, upstream, openAIResp,
                   doneClosed, ctxDone, ticks>>

\* resp, err := api.GenerateContent(ctx, ...): a cancelled context makes
\* the call fail
BypassUpstream ==
    /\ HandlerAt("upstream")
    /\ \E r \in UpstreamResults :
        /\ r.err => r \in ErrorsUnder(ctxDone)
        /\ ctxDone => r.err
        /\ upstream' = r
    /\ Goto("h", "close")
    /\ UNCHANGED <<poolVars, sw, mu, callVars, ncalls, utf8Vars, streamVars, convVars, openAIResp,
                   doneClosed, ctxDone, ticks>>

\* close(done)
BypassCloseDone ==
    /\ HandlerAt("close")
    /\ doneClosed' = TRUE
    /\ Goto("h", IF upstream.err THEN "err_content" ELSE "convert")
    /\ UNCHANGED <<poolVars, sw, mu, callVars, ncalls, utf8Vars, streamVars, convVars, upstream, openAIResp,
                   ctxDone, ticks>>

\* streamWriter.WriteContent("Error: " + err.Error())
BypassErrorContent ==
    /\ HandlerAt("err_content")
    /\ Call("h", Op("WriteContent", ErrorText(upstream)))
    /\ Goto("h", "err_finish")
    /\ UNCHANGED <<poolVars, ncalls, utf8Vars, streamVars, convVars, upstream, openAIResp, doneClosed, ctxDone, ticks>>

\* streamWriter.WriteFinish("stop", nil)
BypassErrorFinish ==
    /\ HandlerAt("err_finish")
    /\ Call("h", Op("WriteFinish", <<"stop", <<>>>>))
    /\ Goto("h", "log")
    /\ UNCHANGED <<poolVars, ncalls, utf8Vars, streamVars, convVars, upstream, openAIResp, doneClosed, ctxDone, ticks>>

\* converter.ConvertToOpenAIResponse(resp, model): indexing Candidates[0] of
\* a response without candidates panics, and the deferred cancel() runs
BypassConvert ==
    /\ HandlerAt("convert")
    /\ IF Len(upstream.candidates) = 0
       THEN /\ Goto("h", "panicked")
            /\ ctxDone' = TRUE
            /\ UNCHANGED openAIResp
       ELSE /\ openAIResp' = ConvertToOpenAIResponse(upstream)
            /\ Goto("h", "reasoning")
            /\ UNCHANGED ctxDone
    /\ UNCHANGED <<poolVars, sw, mu, callVars, ncalls, utf8Vars, streamVars, convVars, upstream, doneClosed, ticks>>

Msg == openAIResp.choices[1].message

\* one conditional write of the burst: call the method when the component
\* is not empty, go on otherwise
BurstStep(from, to, present, o) ==
    /\ HandlerAt(from)
    /\ IF present
       THEN Call("h", o)
       ELSE UNCHANGED <<poolVars, sw, mu, callVars>>
    /\ Goto("h", to)
    /\ UNCHANGED <<poolVars, ncalls, utf8Vars, streamVars, convVars, upstream, openAIResp, doneClosed, ctxDone, ticks>>

\* if msg.Reasoning != "" { streamWriter.WriteReasoning(msg.Reasoning) }
BypassReasoning ==
    BurstStep("reasoning", "tool_calls", Msg.reasoning # <<>>,
              Op("WriteReasoning", Msg.reasoning))

\* if len(msg.ToolCalls) > 0 { streamWriter.WriteToolCalls(msg.ToolCalls) }
BypassToolCalls ==
    BurstStep("tool_calls", "content", Len(Msg.toolCalls) > 0,
              Op("WriteToolCalls", Msg.toolCalls))

\* if msg.Content != "" { streamWriter.WriteContent(msg.Content) }
BypassContent ==
    BurstStep("content", "finish", Msg.content # <<>>,
              Op("WriteContent", Msg.content))

\* streamWriter.WriteFinish(finishReason, openAIResp.Usage)
BypassFinish ==
    LET fr == openAIResp.choices[1].finishReason
        finishReason == IF fr # <<>> THEN fr[1] ELSE "stop"
    IN  BurstStep("finish", "log", TRUE,
                  Op("WriteFinish", <<finishReason, openAIResp.usage>>))

\* recordLog(...), then the handler returns and the deferred cancel() runs
BypassReturn ==
    /\ HandlerAt("log")
    /\ Goto("h", "returned")
    /\ ctxDone' = TRUE
    /\ UNCHANGED <<poolVars, sw, mu, callVars, ncalls, utf8Vars, streamVars, convVars, upstream, openAIResp,
                   doneClosed, ticks>>

BypassLock ==
    \E t \in Threads : Lock(t) /\ UNCHANGED <<poolVars, ncalls, utf8Vars, bypassVars, streamVars, convVars>>

BypassReadSentRole ==
    \E t \in Threads : ReadSentRole(t) /\ UNCHANGED <<poolVars, ncalls, utf8Vars, bypassVars, streamVars, convVars>>

BypassComplete ==
    \E t \in Threads : Complete(t) /\ UNCHANGED <<poolVars, ncalls, utf8Vars, bypassVars, streamVars, convVars>>

\* case <-ticker.C: streamWriter.WriteHeartbeat()
HeartbeatTick ==
    /\ at["hb"] = "select"
    /\ ticks < MaxTicks
    /\ ticks' = ticks + 1
    /\ Call("hb", Op("WriteHeartbeat", <<>>))
    /\ Goto("hb", "tick_ret")
    /\ UNCHANGED <<poolVars, ncalls, utf8Vars, streamVars, convVars, upstream, openAIResp, doneClosed, ctxDone>>

\* if err := streamWriter.WriteHeartbeat(); err != nil { return }
HeartbeatTickReturn ==
    /\ at["hb"] = "tick_ret"
    /\ pc["hb"] = "run"
    /\ Goto("hb", IF ret["hb"] THEN "stopped" ELSE "select")
    /\ UNCHANGED <<poolVars, sw, mu, callVars, ncalls, utf8Vars, streamVars, convVars, upstream, openAIResp,
                   doneClosed, ctxDone, ticks>>

\* case <-done: return
HeartbeatDone ==
    /\ at["hb"] = "select"
    /\ doneClosed
    /\ Goto("hb", "stopped")
    /\ UNCHANGED <<poolVars, sw, mu, callVars, ncalls, utf8Vars, streamVars, convVars, upstream, openAIResp,
                   doneClosed, ctxDone, ticks>>

\* case <-ctx.Done(): return
HeartbeatCtxDone ==
    /\ at["hb"] = "select"
    /\ ctxDone
    /\ Goto("hb", "stopped")
    /\ UNCHANGED <<poolVars, sw, mu, callVars, ncalls, utf8Vars, streamVars, convVars, upstream, openAIResp,
                   doneClosed, ctxDone, ticks>>

ClientDisconnect_noCancel ==
    /\ ~sw.w.broken
    /\ sw' = [sw EXCEPT !.w.broken = TRUE]
    /\ UNCHANGED <<poolVars, mu, callVars, ncalls, utf8Vars, streamVars, convVars, at, upstream, openAIResp,
                   doneClosed, ctxDone, ticks>>

\* the client goes away: the request context is cancelled and every later
\* write to the ResponseWriter fails
ClientDisconnect ==
    /\ ~sw.w.broken
    /\ sw' = [sw EXCEPT !.w.broken = TRUE]
    /\ ctxDone' = TRUE
    /\ UNCHANGED <<poolVars, mu, callVars, ncalls, utf8Vars, streamVars, convVars, at, upstream, openAIResp,
                   doneClosed, ticks>>

BypassNext ==
    \/ BypassFirstHeartbeat
    \/ BypassFirstHeartbeatFailed
    \/ BypassSpawn
    \/ BypassUpstream
    \/ BypassCloseDone
    \/ BypassErrorContent
    \/ BypassErrorFinish
    \/ BypassConvert
    \/ BypassReasoning
    \/ BypassToolCalls
    \/ BypassContent
    \/ BypassFinish
    \/ BypassReturn
    \/ BypassLock
    \/ BypassReadSentRole
    \/ BypassComplete
    \/ HeartbeatTick
    \/ HeartbeatTickReturn
    \/ HeartbeatDone
    \/ HeartbeatCtxDone
    \/ ClientDisconnect

SpecBypass == BypassInit /\ [][BypassNext]_vars

IsBurst(ev) == ev.type \in {"reasoning", "content", "tool_calls", "finish"}

\* C1: in bypass mode no heartbeat event is written after the finish event,
\* nor after the [DONE] sentinel.
C1_NoHeartbeatAfterFinish ==
    \A i, j \in 1..Len(sw.w.out) :
        (i < j /\ sw.w.out[i].type \in {"finish", "done"})
            => sw.w.out[j].type # "heartbeat"

\* C2: whenever a burst event (reasoning, content, tool calls or finish) is
\* on the wire, the heartbeat goroutine has terminated.
C2_HeartbeatStoppedBeforeBurst ==
    (\E i \in 1..Len(sw.w.out) : IsBurst(sw.w.out[i])) => at["hb"] = "stopped"

-----------------------------------------------------------------------------
(* ProcessStreamResponse and handleStreamRequest *)

MaxLines == 3      \* most upstream lines read before the stream ends

\* a StreamChunk; payload is what ConcatOf reads: the tool calls of a
\* tool_calls chunk
Chunk(type, content, calls) ==
    [type |-> type, content |-> content, calls |-> calls, payload |-> calls]

CallPartNoID == Part(<<>>, FALSE, <<FunctionCall("", "g", EmptyArgs)>>)
ThoughtCallPart == Part(<<>>, TRUE, <<FunctionCall("call_2", "f", EmptyArgs)>>)

StreamPartLists ==
    {<<>>, <<ThoughtPart>>, <<TextPart>>, <<CallPart>>, <<CallPartNoID>>,
     <<ThoughtCallPart>>, <<SignedCallPart>>}

StreamUsages == Usages \cup {<<UsageMetadata(9)>>}

\* the JSON payload of a "data: " line
StreamDatas ==
    {[candidates |-> <<>>, usage |-> u] : u \in StreamUsages}
    \cup {[candidates |-> <<[parts |-> ps, finishReason |-> fr]>>, usage |-> u] :
              ps \in StreamPartLists, fr \in {"", "STOP"}, u \in StreamUsages}

\* a line read from the upstream body: one without the "data: " prefix, one
\* whose payload does not decode, or one with a decoded payload
Lines ==
    {[kind |-> "other", data |-> <<>>], [kind |-> "undecodable", data |-> <<>>]}
    \cup {[kind |-> "data", data |-> <<d>>] : d \in StreamDatas}

\* json.Unmarshal into StreamData: its parts have the fields text,
\* functionCall and thought, every other field of the payload is dropped
StreamData(payload) ==
    [payload EXCEPT !.candidates =
        [c \in 1..Len(payload.candidates) |->
            [payload.candidates[c] EXCEPT !.parts =
                [p \in 1..Len(payload.candidates[c].parts) |->
                    [text |-> payload.candidates[c].parts[p].text,
                     functionCall |-> payload.candidates[c].parts[p].functionCall,
                     thought |-> payload.candidates[c].parts[p].thought]]]]]

RECURSIVE ProcessParts(_, _)
\* the loop over candidate.Content.Parts: the chunks it passes to the
\* callback and the tool calls it accumulates
ProcessParts(parts, acc) ==
    IF parts = <<>> THEN acc
    ELSE LET part == Head(parts)
             next ==
                 IF part.thought
                 THEN [acc EXCEPT !.chunks = Append(@, Chunk("thinking", part.text, <<>>))]
                 ELSE IF part.text # <<>>
                 THEN [acc EXCEPT !.chunks = Append(@, Chunk("text", part.text, <<>>))]
                 ELSE IF part.functionCall # <<>>
                 THEN [acc EXCEPT !.toolCalls =
                          Append(@, OpenAIToolCall(part.functionCall[1], ""))]
                 ELSE acc
         IN  ProcessParts(Tail(parts), next)

ProcessData_usageAfterCandidates(data, u, calls) ==
    LET u1 == IF data.usage # <<>> THEN data.usage ELSE u
    IN  IF Len(data.candidates) = 0
        THEN [usage |-> u, toolCalls |-> calls, chunks |-> <<>>]
        ELSE LET candidate == data.candidates[1]
                 r == ProcessParts(candidate.parts,
                                   [chunks |-> <<>>, toolCalls |-> calls])
             IN  IF candidate.finishReason # "" /\ Len(r.toolCalls) > 0
                 THEN [usage |-> u1, toolCalls |-> <<>>,
                       chunks |-> Append(r.chunks,
                                         Chunk("tool_calls", <<>>, r.toolCalls))]
                 ELSE [usage |-> u1, toolCalls |-> r.toolCalls,
                       chunks |-> r.chunks]

\* the rest of an iteration of the read loop, for a payload that decoded
ProcessData(data, u, calls) ==
    LET u1 == IF data.usage # <<>> THEN data.usage ELSE u
    IN  IF Len(data.candidates) = 0
        THEN [usage |-> u1, toolCalls |-> calls, chunks |-> <<>>]
        ELSE LET candidate == data.candidates[1]
                 r == ProcessParts(candidate.parts,
                                   [chunks |-> <<>>, toolCalls |-> calls])
             IN  IF candidate.finishReason # "" /\ Len(r.toolCalls) > 0
                 THEN [usage |-> u1, toolCalls |-> <<>>,
                       chunks |-> Append(r.chunks,
                                         Chunk("tool_calls", <<>>, r.toolCalls))]
                 ELSE [usage |-> u1, toolCalls |-> r.toolCalls,
                       chunks |-> r.chunks]

ProcessLine_skipDropsPending(line, u, calls) ==
    IF line.kind # "data" THEN [usage |-> u, toolCalls |-> <<>>, chunks |-> <<>>]
    ELSE ProcessData(StreamData(line.data[1]), u, calls)

\* one iteration of the read loop for a line that is not the sentinel: the
\* new usage, the new accumulated tool calls and the chunks passed on
ProcessLine(line, u, calls) ==
    IF line.kind # "data" THEN [usage |-> u, toolCalls |-> calls, chunks |-> <<>>]
    ELSE ProcessData(StreamData(line.data[1]), u, calls)

\* the code after the read loop: send the tool calls not sent yet
AfterLoop(calls) ==
    IF Len(calls) > 0 THEN <<Chunk("tool_calls", <<>>, calls)>> ELSE <<>>

\* the callback of handleStreamRequest, applied to one chunk
Callback(st, chunk) ==
    CASE chunk.type = "thinking" ->
             [st EXCEPT !.sw = WriteReasoning(st.sw, chunk.content).sw]
      [] chunk.type = "text" ->
             [st EXCEPT !.sw = WriteContent(st.sw, chunk.content).sw]
      [] chunk.type = "tool_calls" ->
             [sw |-> WriteToolCalls(st.sw, chunk.calls).sw, toolCalls |-> chunk.calls]
      [] chunk.type = "done" -> st

RECURSIVE Callbacks(_, _)
Callbacks(st, cs) ==
    IF cs = <<>> THEN st ELSE Callbacks(Callback(st, Head(cs)), Tail(cs))

RECURSIVE FunctionCallsOf(_)
\* the function_call parts of a part list, as the tool calls they stand for
FunctionCallsOf(parts) ==
    IF parts = <<>> THEN <<>>
    ELSE (IF Head(parts).functionCall # <<>>
          THEN <<OpenAIToolCall(Head(parts).functionCall[1],
                                Head(parts).thoughtSignature)>>
          ELSE <<>>)
         \o FunctionCallsOf(Tail(parts))

ReceivedCalls(line) ==
    IF line.kind = "data" /\ Len(line.data[1].candidates) > 0
    THEN FunctionCallsOf(line.data[1].candidates[1].parts)
    ELSE <<>>

StreamInit ==
    /\ sw = NewStreamWriter
    /\ CallInit
    /\ ncalls = 0
    /\ Utf8Idle
    /\ at = [t \in Threads |-> IF t = "h" THEN "open" ELSE "none"]
    /\ upstream = <<>>
    /\ openAIResp = <<>>
    /\ doneClosed = FALSE
    /\ ctxDone = FALSE
    /\ ticks = 0
    /\ StreamIdle
    /\ PoolIdle
    /\ ConvIdle

StreamFrame == <<mu, callVars, ncalls, utf8Vars, upstream, openAIResp,
                 doneClosed, ctxDone, ticks, convVars>>

\* api.GenerateContentStream failed: WriteStreamError and return
StreamOpenFailed ==
    /\ at["h"] = "open"
    /\ \E e \in ErrorsUnder(ctxDone) :
        /\ upstream' = e
        /\ sw' = [sw EXCEPT !.w = WriteStreamError(sw.w, ErrorString(e))]
    /\ Goto("h", "open_failed")
    /\ streamErr' = TRUE
    /\ UNCHANGED <<poolVars, mu, callVars, ncalls, utf8Vars, openAIResp, doneClosed, ctxDone,
                   ticks, convVars, usage, toolCalls, handlerToolCalls, chunks,
                   recvCalls, nlines, lineKinds, lastLine, tailLine>>

\* the client goes away while api.GenerateContentStream is running
StreamClientDisconnect ==
    /\ at["h"] = "open"
    /\ ~sw.w.broken
    /\ sw' = [sw EXCEPT !.w.broken = TRUE]
    /\ ctxDone' = TRUE
    /\ UNCHANGED <<poolVars, mu, callVars, ncalls, utf8Vars, at, upstream, openAIResp,
                   doneClosed, ticks, streamVars, convVars>>

\* api.GenerateContentStream succeeded: NewStreamWriter, then
\* ProcessStreamResponse starts
StreamOpened ==
    /\ at["h"] = "open"
    /\ ~ctxDone
    /\ Goto("h", "reading")
    /\ UNCHANGED <<poolVars, sw, StreamFrame, streamVars, convVars>>

\* gzip.NewReader fails: return nil, err
StreamGzipError ==
    /\ at["h"] = "reading"
    /\ nlines = 0
    /\ streamErr' = TRUE
    /\ Goto("h", "processed")
    /\ UNCHANGED <<poolVars, sw, StreamFrame, usage, toolCalls, handlerToolCalls, chunks,
                   recvCalls, nlines, lineKinds, lastLine, tailLine>>

\* the chunks cs are passed to the callback
Deliver(cs) ==
    LET st == Callbacks([sw |-> sw, toolCalls |-> handlerToolCalls], cs)
    IN  /\ sw' = st.sw
        /\ handlerToolCalls' = st.toolCalls
        /\ chunks' = chunks \o cs

\* what is kept of the line read last: its kind, the usage metadata of its
\* payload and the number of its candidates
LineRead(line) ==
    [kind |-> line.kind,
     usage |-> IF line.kind = "data" THEN line.data[1].usage ELSE <<>>,
     candidates |-> IF line.kind = "data" THEN Len(line.data[1].candidates) ELSE 0]

\* ReadString returns a whole line that is not the sentinel
StreamReadLine ==
    /\ at["h"] = "reading"
    /\ nlines < MaxLines
    /\ \E line \in Lines :
        LET r == ProcessLine(line, usage, toolCalls)
        IN  /\ usage' = r.usage
            /\ toolCalls' = r.toolCalls
            /\ recvCalls' = recvCalls \o ReceivedCalls(line)
            /\ Deliver(r.chunks)
            /\ lineKinds' = Append(lineKinds, line.kind)
            /\ lastLine' = LineRead(line)
    /\ nlines' = nlines + 1
    /\ UNCHANGED <<poolVars, StreamFrame, at, streamErr, tailLine>>

\* the line is "data: [DONE]": the done chunk, break, the code after the loop
StreamSentinel ==
    /\ at["h"] = "reading"
    /\ Deliver(<<Chunk("done", <<>>, <<>>)>> \o AfterLoop(toolCalls))
    /\ Goto("h", "processed")
    /\ UNCHANGED <<poolVars, StreamFrame, usage, toolCalls, recvCalls, nlines, lineKinds, lastLine,
                   tailLine, streamErr>>

\* the text, the function call and the usage of a last line
TailPart == Part(<<90>>, FALSE, <<FunctionCall("call_tail", "f", EmptyArgs)>>)
TailUsage == <<UsageMetadata(5)>>

\* what ReadString can return together with io.EOF: nothing, or the bytes of
\* a last line that has no newline after it
TailLines ==
    {<<>>,
     <<[kind |-> "data", data |-> <<[candidates |-> <<>>, usage |-> TailUsage]>>]>>,
     <<[kind |-> "data",
        data |-> <<[candidates |-> <<[parts |-> <<Part(<<90>>, FALSE, <<>>), TailPart>>,
                                      finishReason |-> "STOP"]>>,
                    usage |-> TailUsage]>>]>>}

\* ReadString returns io.EOF: break, the code after the loop.  Bytes read
\* after the last newline are returned with io.EOF and are not processed.
StreamEOF ==
    /\ at["h"] = "reading"
    /\ \E tail \in TailLines : tailLine' = tail
    /\ Deliver(AfterLoop(toolCalls))
    /\ Goto("h", "processed")
    /\ UNCHANGED <<poolVars, StreamFrame, usage, toolCalls, recvCalls, nlines, lineKinds, lastLine, streamErr>>

\* ReadString returns another error: return usage, err
StreamReadError ==
    /\ at["h"] = "reading"
    /\ streamErr' = TRUE
    /\ Goto("h", "processed")
    /\ UNCHANGED <<poolVars, sw, StreamFrame, usage, toolCalls, handlerToolCalls, chunks,
                   recvCalls, nlines, lineKinds, lastLine, tailLine>>

StreamFinishReason_alwaysStop(calls) == "stop"

\* the finish reason handleStreamRequest picks from its toolCalls
StreamFinishReason(calls) == IF Len(calls) > 0 THEN "tool_calls" ELSE "stop"

\* ProcessStreamResponse has returned (usage, err): the handler picks the
\* finish reason, converts the usage and calls WriteFinish
StreamWriteFinish ==
    /\ at["h"] = "processed"
    /\ LET finishReason == StreamFinishReason(handlerToolCalls)
           usageData == IF usage # <<>> THEN ConvertUsage(usage) ELSE <<>>
       IN  sw' = WriteFinish(sw, finishReason, usageData).sw
    /\ Goto("h", "returned")
    /\ UNCHANGED <<poolVars, StreamFrame, streamVars, convVars>>

StreamNext ==
    \/ StreamOpenFailed
    \/ StreamClientDisconnect
    \/ StreamOpened
    \/ StreamGzipError
    \/ StreamReadLine
    \/ StreamSentinel
    \/ StreamEOF
    \/ StreamReadError
    \/ StreamWriteFinish

SpecStream == StreamInit /\ [][StreamNext]_vars

DeliveredCalls == ConcatOf(chunks, "tool_calls")

WithoutSignature(calls) ==
    [i \in 1..Len(calls) |-> [calls[i] EXCEPT !.thoughtSignature = ""]]

\* C8: once the upstream stream has been opened, the client gets exactly one
\* terminal event, with the finish reason and the final usage, after every
\* delta event, followed at once by exactly one [DONE], and nothing after it.
C8_OneTerminalEvent ==
    LET out == sw.w.out
        n == Len(out)
    IN  /\ at["h"] \in {"reading", "processed"} =>
               CountOf(out, "finish") = 0 /\ CountOf(out, "done") = 0
        /\ at["h"] = "returned" =>
               /\ n >= 2
               /\ out[n] = DoneEvent
               /\ out[n - 1].type = "finish"
               /\ out[n - 1].payload[1] \in {"stop", "tool_calls"}
               /\ out[n - 1].payload[2] = ConvertUsage(usage)
               /\ CountOf(out, "finish") = 1
               /\ CountOf(out, "done") = 1

\* the stream ended with a read error after text and tool calls had been
\* relayed and a usage captured, and the handler has returned
C8_Witness ==
    /\ at["h"] = "returned"
    /\ streamErr
    /\ usage = <<UsageMetadata(9)>>
    /\ CountOf(sw.w.out, "content") = 1
    /\ CountOf(sw.w.out, "tool_calls") = 1
    /\ sw.w.out[Len(sw.w.out)] = DoneEvent

\* C9: when ProcessStreamResponse has returned, the function_call parts it
\* received have been passed to the callback in tool_calls chunks, each once
\* and in arrival order.
C9_EveryCallDeliveredOnce ==
    at["h"] \in {"processed", "returned"} =>
        WithoutSignature(DeliveredCalls) = WithoutSignature(recvCalls)

-----------------------------------------------------------------------------
(* ConvertOpenAIToAntigravity.  A message content is a plain text. *)

MaxMsgs == 3       \* most messages in one request

OpenAIMessage(role, content, calls, toolCallID) ==
    [role |-> role, content |-> content, toolCalls |-> calls,
     toolCallID |-> toolCallID]

RequestToolCall(id, name, arguments, thoughtSignature) ==
    [id |-> id, name |-> name, arguments |-> arguments,
     thoughtSignature |-> thoughtSignature]

MessageKinds ==
    {OpenAIMessage("system", <<83>>, <<>>, ""),
     OpenAIMessage("user", <<85>>, <<>>, ""),
     OpenAIMessage("assistant", <<65>>, <<>>, ""),
     OpenAIMessage("assistant", <<>>, <<>>, ""),
     OpenAIMessage("assistant", <<>>, <<RequestToolCall("call_1", "f", JsonObject(<<>>, FALSE), "")>>, ""),
     OpenAIMessage("tool", <<82>>, <<>>, "call_1"),
     OpenAIMessage("tool", <<82>>, <<>>, "call_9")}

Models ==
    {"claude-sonnet-4-5", "claude-sonnet-4-5-thinking", "gemini-2.5-flash",
     "gemini-3-pro-high", "gemini-3-pro-high-bypass"}

\* the sampling fields of a request: all absent, or all given
Samplings ==
    {[temperature |-> <<>>, topP |-> <<>>, maxTokens |-> 0],
     [temperature |-> <<5>>, topP |-> <<9>>, maxTokens |-> 100]}

\* histories in which a tool result comes back after a message that gives
\* no upstream turn (an assistant message with neither text nor tool calls,
\* a system message)
InterruptedHistories ==
    {<<OpenAIMessage("assistant", <<>>, <<RequestToolCall("call_1", "f", JsonObject(<<>>, FALSE), "")>>, ""),
       OpenAIMessage("tool", <<82>>, <<>>, "call_1"),
       between,
       OpenAIMessage("tool", <<82>>, <<>>, "call_1")>> :
        between \in {OpenAIMessage("assistant", <<>>, <<>>, ""),
                     OpenAIMessage("system", <<83>>, <<>>, "")}}

\* histories with several system messages of different texts, one of them
\* empty, around a user message
SystemHistories ==
    BoundedSeq({OpenAIMessage("system", <<83>>, <<>>, ""),
                OpenAIMessage("system", <<84>>, <<>>, ""),
                OpenAIMessage("system", <<>>, <<>>, ""),
                OpenAIMessage("user", <<85>>, <<>>, "")}, MaxMsgs)

\* an assistant message calling one function under a tool call id
AssistantCall(id, name) ==
    OpenAIMessage("assistant", <<>>, <<RequestToolCall(id, name, JsonObject(<<>>, FALSE), "")>>, "")

\* histories in which two assistant messages use the same tool call id for
\* different functions, with results for that id and for an unknown id
CorrelationHistories ==
    {<<AssistantCall("call_1", "f"), AssistantCall("call_1", "g"),
       OpenAIMessage("tool", <<82>>, <<>>, "call_1")>>,
     <<AssistantCall("call_1", "g"), AssistantCall("call_2", "f"),
       OpenAIMessage("tool", <<82>>, <<>>, "call_1")>>,
     <<AssistantCall("call_1", "f"), OpenAIMessage("tool", <<82>>, <<>>, "call_1"),
       AssistantCall("call_1", "g"), OpenAIMessage("tool", <<82>>, <<>>, "call_1"),
       OpenAIMessage("tool", <<82>>, <<>>, "call_9")>>}

Requests ==
    {[model |-> m, messages |-> ms, stop |-> st, temperature |-> sa.temperature,
      topP |-> sa.topP, maxTokens |-> sa.maxTokens, tools |-> <<>>] :
        m \in Models,
        ms \in BoundedSeq(MessageKinds, MaxMsgs) \cup InterruptedHistories
                  \cup SystemHistories \cup CorrelationHistories,
        st \in {<<>>, <<"END">>}, sa \in Samplings}

\* the model helpers of the converter package
ResolveModelName(model) ==
    IF model = "gemini-3-pro-high-bypass" THEN "gemini-3-pro-high" ELSE model

IsClaudeModel(modelName) ==
    modelName \in {"claude-sonnet-4-5", "claude-sonnet-4-5-thinking"}

ShouldEnableThinking(modelName) ==
    modelName \in {"claude-sonnet-4-5-thinking", "gemini-3-pro-high"}

BuildThinkingConfig(modelName) == [includeThoughts |-> TRUE]

GetClaudeMaxOutputTokens(modelName) == <<"max_output_tokens", modelName>>

DefaultStopSequences == <<"<|user|>", "<|end|>">>

hasToolCallsInHistory_onlyLast(messages) ==
    /\ Len(messages) > 0
    /\ LET msg == messages[Len(messages)]
       IN  Len(msg.toolCalls) > 0 \/ msg.role = "tool"

hasToolCallsInHistory(messages) ==
    \E i \in 1..Len(messages) :
        Len(messages[i].toolCalls) > 0 \/ messages[i].role = "tool"

ContentPart(text, functionCall, functionResponse) ==
    [text |-> text, thought |-> FALSE, functionCall |-> functionCall,
     functionResponse |-> functionResponse, thoughtSignature |-> ""]

\* an argument string that does not decode gives an empty map
parseArgs(argsStr) ==
    LET r == JsonUnmarshal(argsStr)
    IN  IF r.err THEN EmptyArgs ELSE r.args

Content(role, parts) == [role |-> role, parts |-> parts]

RECURSIVE CallParts(_)
\* one function_call part per tool call of an assistant message
CallParts(calls) ==
    IF calls = <<>> THEN <<>>
    ELSE LET tc == Head(calls)
             args == parseArgs(tc.arguments)
         IN  <<[ContentPart(<<>>, <<FunctionCall(tc.id, tc.name, args)>>, <<>>)
                   EXCEPT !.thoughtSignature = tc.thoughtSignature]>>
             \o CallParts(Tail(calls))

\* the name of the function_call part with this id in one turn, if any
NameInTurn(turn, toolCallID) ==
    LET hits == {j \in 1..Len(turn.parts) :
                    /\ turn.parts[j].functionCall # <<>>
                    /\ turn.parts[j].functionCall[1].id = toolCallID}
    IN  IF hits = {} THEN <<>>
        ELSE <<turn.parts[CHOOSE j \in hits : \A k \in hits : j <= k].functionCall[1].name>>

RECURSIVE findFunctionNameFrom(_, _, _)
findFunctionNameFrom(contents, i, toolCallID) ==
    IF i < 1 THEN ""
    ELSE LET n == NameInTurn(contents[i], toolCallID)
         IN  IF n # <<>> THEN n[1]
             ELSE findFunctionNameFrom(contents, i - 1, toolCallID)

findFunctionName_firstToLast(contents, toolCallID) ==
    LET hits == {i \in 1..Len(contents) : NameInTurn(contents[i], toolCallID) # <<>>}
    IN  IF hits = {} THEN ""
        ELSE NameInTurn(contents[CHOOSE i \in hits : \A k \in hits : i <= k],
                        toolCallID)[1]

findFunctionName(contents, toolCallID) ==
    findFunctionNameFrom(contents, Len(contents), toolCallID)

appendFunctionResponse_alwaysNew(contents, part) ==
    Append(contents, Content("user", <<part>>))

appendFunctionResponse(contents, part) ==
    LET n == Len(contents)
    IN  IF n > 0 /\ contents[n].role = "model"
        THEN Append(contents, Content("user", <<part>>))
        ELSE IF n > 0 /\ contents[n].role = "user"
        THEN [contents EXCEPT ![n].parts = Append(@, part)]
        ELSE Append(contents, Content("user", <<part>>))

\* one iteration of the loop of convertMessages
convertMessage(result, msg) ==
    CASE msg.role = "system" -> result
      [] msg.role = "user" ->
             Append(result, Content("user", <<ContentPart(msg.content, <<>>, <<>>)>>))
      [] msg.role = "assistant" ->
             LET parts == (IF msg.content # <<>>
                           THEN <<ContentPart(msg.content, <<>>, <<>>)>> ELSE <<>>)
                          \o CallParts(msg.toolCalls)
             IN  IF Len(parts) > 0 THEN Append(result, Content("model", parts))
                 ELSE result
      [] msg.role = "tool" ->
             LET funcName == findFunctionName(result, msg.toolCallID)
                 part == ContentPart(<<>>, <<>>,
                             <<[id |-> msg.toolCallID, name |-> funcName,
                                response |-> msg.content]>>)
             IN  appendFunctionResponse(result, part)
      [] OTHER -> result

RECURSIVE convertMessagesFrom(_, _)
convertMessagesFrom(result, messages) ==
    IF messages = <<>> THEN result
    ELSE convertMessagesFrom(convertMessage(result, Head(messages)), Tail(messages))

convertMessages(messages) == convertMessagesFrom(<<>>, messages)

RECURSIVE SystemTexts(_)
SystemTexts(messages) ==
    IF messages = <<>> THEN <<>>
    ELSE (IF Head(messages).role = "system" THEN <<Head(messages).content>> ELSE <<>>)
         \o SystemTexts(Tail(messages))

RECURSIVE Join(_, _)
\* strings.Join
Join(texts, sep) ==
    IF texts = <<>> THEN <<>>
    ELSE IF Len(texts) = 1 THEN texts[1]
    ELSE texts[1] \o sep \o Join(Tail(texts), sep)

extractSystemInstruction_newlineJoined(messages) ==
    Join(SystemTexts(messages), <<10>>)

extractSystemInstruction(messages) == Join(SystemTexts(messages), <<10, 10>>)

buildGenerationConfig(req, modelName, hasHistoryFunctionCalls) ==
    LET config == [candidateCount |-> 1,
                   stopSequences |-> DefaultStopSequences \o req.stop,
                   maxOutputTokens |-> 0,
                   temperature |-> <<>>,
                   topP |-> <<>>,
                   thinkingConfig |-> <<>>]
        thinking == IF ~hasHistoryFunctionCalls /\ ShouldEnableThinking(modelName)
                    THEN <<BuildThinkingConfig(modelName)>> ELSE <<>>
    IN  IF IsClaudeModel(modelName)
        THEN [config EXCEPT !.maxOutputTokens = GetClaudeMaxOutputTokens(modelName),
                            !.thinkingConfig = thinking]
        ELSE [config EXCEPT !.temperature = req.temperature,
                            !.topP = req.topP,
                            !.maxOutputTokens = IF req.maxTokens > 0 THEN req.maxTokens ELSE 0,
                            !.thinkingConfig = thinking]

\* convertTools: one Tool per tool of the request, holding its declaration
convertTools(tools) ==
    [i \in 1..Len(tools) |-> [functionDeclarations |-> <<tools[i]>>]]

ConvertOpenAIToAntigravity(req) ==
    LET modelName == ResolveModelName(req.model)
        hasHistoryFunctionCalls == hasToolCallsInHistory(req.messages)
        systemText == extractSystemInstruction(req.messages)
    IN  [model |-> modelName,
         requestType |-> "",
         request |->
             [contents |-> convertMessages(req.messages),
              systemInstruction |->
                  IF systemText # <<>>
                  THEN <<[parts |-> <<ContentPart(systemText, <<>>, <<>>)>>]>>
                  ELSE <<>>,
              tools |-> convertTools(req.tools),
              toolConfig |-> IF Len(req.tools) > 0 THEN <<"AUTO">> ELSE <<>>,
              generationConfig |->
                  buildGenerationConfig(req, modelName, hasHistoryFunctionCalls)]]

ConvInit ==
    /\ sw = NewStreamWriter
    /\ CallInit
    /\ ncalls = 0
    /\ Utf8Idle
    /\ BypassIdle
    /\ StreamIdle
    /\ PoolIdle
    /\ convReq \in {<<req>> : req \in Requests}
    /\ convOut = <<>>
    /\ StopIdle

\* the request is translated
Convert ==
    /\ convOut = <<>>
    /\ convOut' = <<ConvertOpenAIToAntigravity(convReq[1])>>
    /\ UNCHANGED <<poolVars, sw, mu, callVars, ncalls, utf8Vars, bypassVars, streamVars,
                   convReq, stopVars>>

ConvNext == Convert

SpecConv == ConvInit /\ [][ConvNext]_vars

\* C10: a request whose message list holds a tool-role message or a message
\* with tool calls, at any position, is translated with no thinking config,
\* whatever the destination model.
C10_ThinkingSuppressed ==
    convOut # <<>> =>
        LET ms == convReq[1].messages
        IN  (\E i \in 1..Len(ms) : ms[i].role = "tool" \/ ms[i].toolCalls # <<>>)
                => convOut[1].request.generationConfig.thinkingConfig = <<>>

\* a request for a model that thinks by default, with an assistant tool call
\* first and a user message last, was translated
C10_Witness ==
    /\ convOut # <<>>
    /\ ShouldEnableThinking(ResolveModelName(convReq[1].model))
    /\ Len(convReq[1].messages) = MaxMsgs
    /\ convReq[1].messages[1].toolCalls # <<>>
    /\ convReq[1].messages[MaxMsgs].role = "user"
    /\ convOut[1].request.generationConfig.thinkingConfig = <<>>

\* messages i+1..i+k are a maximal run of tool-role messages that follows
\* message i, an assistant message holding tool calls
IsToolRun(ms, i, k) ==
    /\ k >= 1
    /\ i >= 1
    /\ i + k <= Len(ms)
    /\ ms[i].role = "assistant"
    /\ ms[i].toolCalls # <<>>
    /\ \A j \in (i + 1)..(i + k) : ms[j].role = "tool"
    /\ (i + k < Len(ms)) => ms[i + k + 1].role # "tool"

\* C11: k >= 1 consecutive tool-role messages that follow an assistant
\* message holding tool calls give exactly one upstream turn, of role user,
\* right after that model turn, whose parts are exactly k function_response
\* parts answering the k messages in message order.
C11_ToolResultFolding ==
    convOut # <<>> =>
        LET ms == convReq[1].messages
            out == convOut[1].request.contents
        IN  \A i \in 1..Len(ms), k \in 1..Len(ms) :
                IsToolRun(ms, i, k) =>
                    LET p == Len(convertMessages(SubSeq(ms, 1, i)))
                        q == Len(convertMessages(SubSeq(ms, 1, i + k)))
                    IN  /\ p >= 1
                        /\ out[p].role = "model"
                        /\ q = p + 1
                        /\ out[q].role = "user"
                        /\ Len(out[q].parts) = k
                        /\ \A j \in 1..k :
                               /\ out[q].parts[j].functionResponse # <<>>
                               /\ out[q].parts[j].functionResponse[1].id
                                      = ms[i + j].toolCallID

\* the message gives an upstream turn of its own
ProducesTurn(m) ==
    \/ m.role = "user"
    \/ m.role = "assistant" /\ (m.content # <<>> \/ m.toolCalls # <<>>)

\* messages i+1..i+n are the whole stretch, after the assistant message i
\* holding tool calls, in which no message gives a turn of its own
IsFold(ms, i, n) ==
    /\ i >= 1
    /\ i + n <= Len(ms)
    /\ ms[i].role = "assistant"
    /\ ms[i].toolCalls # <<>>
    /\ \A j \in (i + 1)..(i + n) : ~ProducesTurn(ms[j])
    /\ (i + n < Len(ms)) => ProducesTurn(ms[i + n + 1])

\* C11, amended: the tool-role messages that follow an assistant message
\* holding tool calls, up to the next message that gives a turn of its own
\* (system messages and assistant messages without text or tool calls give
\* none), are folded into exactly one user turn right after that model
\* turn, holding one function_response part per tool message, in message
\* order.
C11_FoldUpToNextTurn ==
    convOut # <<>> =>
        LET ms == convReq[1].messages
            out == convOut[1].request.contents
        IN  \A i \in 1..Len(ms), n \in 1..Len(ms) :
                LET tools == SelectSeq(SubSeq(ms, i + 1, i + n),
                                       LAMBDA m : m.role = "tool")
                    p == Len(convertMessages(SubSeq(ms, 1, i)))
                IN  (IsFold(ms, i, n) /\ tools # <<>>) =>
                        /\ p >= 1
                        /\ out[p].role = "model"
                        /\ Len(out) >= p + 1
                        /\ out[p + 1].role = "user"
                        /\ Len(out[p + 1].parts) = Len(tools)
                        /\ \A j \in 1..Len(tools) :
                               /\ out[p + 1].parts[j].functionResponse # <<>>
                               /\ out[p + 1].parts[j].functionResponse[1].id
                                      = tools[j].toolCallID
                        /\ (Len(out) > p + 1) => ProducesTurn(ms[i + n + 1])

\* a tool result, a system message and a second tool result after an
\* assistant tool call were translated into a model turn and one user turn
\* holding both results
C11_Witness ==
    /\ convOut # <<>>
    /\ Len(convReq[1].messages) = 4
    /\ IsFold(convReq[1].messages, 1, 3)
    /\ convReq[1].messages[3].role = "system"
    /\ Len(convOut[1].request.contents) = 2
    /\ Len(convOut[1].request.contents[2].parts) = 2

\* the text the instruction slot of an upstream request holds
SlotText(sent) ==
    IF sent.request.systemInstruction = <<>> THEN <<>>
    ELSE sent.request.systemInstruction[1].parts[1].text

RECURSIVE DoubleNewlineJoined(_)
\* the contents of the messages, a double newline before each but the first
DoubleNewlineJoined(ms) ==
    IF Len(ms) = 0 THEN <<>>
    ELSE IF Len(ms) = 1 THEN ms[1].content
    ELSE DoubleNewlineJoined(SubSeq(ms, 1, Len(ms) - 1))
             \o <<10, 10>> \o ms[Len(ms)].content

\* C22: no system message gives an upstream turn (the turns are those of
\* the list without its system messages), and the instruction slot holds
\* the texts of the system messages in message order with a double newline
\* between each two; without a system message the slot is absent.
C22_SystemInstruction ==
    convOut # <<>> =>
        LET ms   == convReq[1].messages
            sent == convOut[1]
            sys  == SelectSeq(ms, LAMBDA m : m.role = "system")
            rest == SelectSeq(ms, LAMBDA m : m.role # "system")
        IN  /\ sent.request.contents = convertMessages(rest)
            /\ Len(sent.request.contents) <= Len(rest)
            /\ sys = <<>> => sent.request.systemInstruction = <<>>
            /\ sent.request.systemInstruction # <<>> =>
                   Len(sent.request.systemInstruction[1].parts) = 1
            /\ SlotText(sent) = DoubleNewlineJoined(sys)

\* two system messages of different texts around a user message were
\* translated: one user turn, and both texts in the slot
C22_Witness ==
    /\ convOut # <<>>
    /\ Len(convReq[1].messages) = 3
    /\ convReq[1].messages[1] = OpenAIMessage("system", <<84>>, <<>>, "")
    /\ convReq[1].messages[2].role = "user"
    /\ convReq[1].messages[3] = OpenAIMessage("system", <<83>>, <<>>, "")
    /\ Len(convOut[1].request.contents) = 1
    /\ SlotText(convOut[1]) = <<84, 10, 10, 83>>

\* the role of the turn a user or assistant message maps to
TurnRole(m) == IF m.role = "assistant" THEN "model" ELSE "user"

\* C23: every user message gives exactly one user turn and every assistant
\* message exactly one model turn, in message order, also an assistant
\* message without text and without tool calls: there are as many model
\* turns as assistant messages, and a history of user and assistant
\* messages only gives exactly their turns in order.
C23_OneTurnPerMessage ==
    convOut # <<>> =>
        LET ms    == convReq[1].messages
            out   == convOut[1].request.contents
            conv  == SelectSeq(ms, LAMBDA m : m.role \in {"user", "assistant"})
            tools == SelectSeq(ms, LAMBDA m : m.role = "tool")
        IN  /\ Cardinality({i \in 1..Len(out) : out[i].role = "model"})
                   = Cardinality({i \in 1..Len(ms) : ms[i].role = "assistant"})
            /\ tools = <<>> =>
                   /\ Len(out) = Len(conv)
                   /\ \A i \in 1..Len(conv) : out[i].role = TurnRole(conv[i])

-----------------------------------------------------------------------------
(* Round trip: an assistant message with one tool call and its tool result *)
(* is translated by ConvertOpenAIToAntigravity, and the model turn is fed  *)
(* back as an upstream response to ConvertToOpenAIResponse.                *)

\* argument strings a client can send
ArgTexts ==
    {JsonObject(<<>>, FALSE),
     JsonObject(<<Member(97, Num(1))>>, FALSE),
     JsonObject(<<Member(97, Num(1))>>, TRUE),
     JsonObject(<<Member(98, Num(2)), Member(97, Num(1))>>, FALSE),
     JsonObject(<<Member(97, BigNum(1))>>, FALSE),
     JsonInvalid}

RoundCalls ==
    {RequestToolCall(i, n, a, sig) :
        i \in {"", "call_1"}, n \in {"f", "g"}, a \in ArgTexts,
        sig \in {"", "sig_A"}}

RoundRequests ==
    {[model |-> "gemini-2.5-flash",
      messages |-> pre \o <<OpenAIMessage("assistant", t, <<tc>>, ""),
                           OpenAIMessage("tool", <<82>>, <<>>, tc.id)>>,
      stop |-> <<>>, temperature |-> <<>>, topP |-> <<>>, maxTokens |-> 0,
      tools |-> <<>>] :
        pre \in BoundedSeq({OpenAIMessage("user", <<85>>, <<>>, "")}, MaxMsgs - 2),
        t \in {<<>>, <<65>>}, tc \in RoundCalls}

RoundInit ==
    /\ sw = NewStreamWriter
    /\ CallInit
    /\ ncalls = 0
    /\ Utf8Idle
    /\ BypassIdle
    /\ StreamIdle
    /\ PoolIdle
    /\ convReq \in {<<req>> : req \in RoundRequests}
    /\ convOut = <<>>
    /\ StopIdle

\* the last model turn of the translated request
ModelTurn(contents) ==
    contents[CHOOSE i \in 1..Len(contents) :
                 /\ contents[i].role = "model"
                 /\ \A j \in (i + 1)..Len(contents) : contents[j].role # "model"]

\* the parts of the model turn come back as the only candidate of a response
FeedBack ==
    /\ convOut # <<>>
    /\ openAIResp = <<>>
    /\ LET turn == ModelTurn(convOut[1].request.contents)
           resp == [err |-> FALSE, candidates |-> <<[parts |-> turn.parts]>>,
                    usage |-> <<>>]
       IN  openAIResp' = ConvertToOpenAIResponse(resp)
    /\ UNCHANGED <<poolVars, sw, mu, callVars, ncalls, utf8Vars, at, upstream, doneClosed,
                   ctxDone, ticks, streamVars, convVars>>

RoundNext == Convert \/ FeedBack

SpecRound == RoundInit /\ [][RoundNext]_vars

\* the tool call c stands for the function_call part p, with p's signature
StandsFor(c, p) ==
    /\ p.functionCall # <<>>
    /\ c.name = p.functionCall[1].name
    /\ p.functionCall[1].id # "" => c.id = p.functionCall[1].id
    /\ c.thoughtSignature = p.thoughtSignature

\* the tool calls of a converted response carry the signatures of the parts
\* of the upstream response
ResponseCarriesSignature ==
    (upstream # <<>> /\ openAIResp # <<>>) =>
        LET parts == upstream.candidates[1].parts
            calls == openAIResp.choices[1].message.toolCalls
        IN  \A i \in 1..Len(calls) :
                \E j \in 1..Len(parts) : StandsFor(calls[i], parts[j])

\* the tool calls written to the client of the true-streaming path carry the
\* signatures of the function_call parts received
StreamCarriesSignature ==
    chunks # <<>> =>
        LET calls == ConcatOf(sw.w.out, "tool_calls")
        IN  \A i \in 1..Len(calls) :
                \E j \in 1..Len(recvCalls) : recvCalls[j] = calls[i]

\* the function_call parts of a translated request carry the signatures of
\* the tool calls of the assistant messages
RequestCarriesSignature ==
    convOut # <<>> =>
        LET ms == convReq[1].messages
            out == convOut[1].request.contents
        IN  \A i \in 1..Len(ms) : \A j \in 1..Len(ms[i].toolCalls) :
                ms[i].role = "assistant" =>
                    \E p \in 1..Len(out) : \E q \in 1..Len(out[p].parts) :
                        /\ out[p].role = "model"
                        /\ out[p].parts[q].functionCall # <<>>
                        /\ out[p].parts[q].functionCall[1].id = ms[i].toolCalls[j].id
                        /\ out[p].parts[q].thoughtSignature
                               = ms[i].toolCalls[j].thoughtSignature

\* C12: the thought signature of a function_call part of an upstream
\* response is carried unchanged onto the tool call given to the client, on
\* the converted-response paths and on the true-streaming path, and the
\* signature of a tool call sent back in an assistant message is placed
\* unchanged on the function_call part of the model turn.
C12_SignatureRoundTrip ==
    /\ ResponseCarriesSignature
    /\ StreamCarriesSignature
    /\ RequestCarriesSignature

\* the value a JSON object text denotes: its keys with their exact numbers
JsonValue(text) ==
    [k \in MemberKeys(text.members) |-> LastWith(text.members, k).num]

\* C13: an assistant message with text t and one tool call (id i, name n,
\* arguments a, a JSON object) followed by the tool result for i, translated
\* and fed back as an upstream response, gives content t and exactly one
\* tool call with name n, arguments equal to a as JSON values, and id i, or
\* a generated id when i is empty.
C13_RoundTrip ==
    (convOut # <<>> /\ openAIResp # <<>>) =>
        LET ms == convReq[1].messages
            asst == ms[Len(ms) - 1]
            tc == asst.toolCalls[1]
            msg == openAIResp.choices[1].message
        IN  tc.arguments.kind = "object" =>
                /\ msg.content = asst.content
                /\ Len(msg.toolCalls) = 1
                /\ msg.toolCalls[1].name = tc.name
                /\ msg.toolCalls[1].arguments.kind = "object"
                /\ JsonValue(msg.toolCalls[1].arguments) = JsonValue(tc.arguments)
                /\ msg.toolCalls[1].id
                       = (IF tc.id = "" THEN GeneratedToolCallID ELSE tc.id)

-----------------------------------------------------------------------------
(* handleNonStreamRequest: one upstream call, then one JSON body or one    *)
(* error body on the ResponseWriter sw.w.                                  *)

\* WriteError(w, status, message): the status line and a JSON error body
WriteError(w, status, message) ==
    Write(w, Event("error_response", <<status, message>>)).w

\* WriteJSON(w, status, v)
WriteJSON(w, status, v) == Write(w, Event("json", <<status, v>>)).w

SingleInit ==
    /\ sw = NewStreamWriter
    /\ CallInit
    /\ ncalls = 0
    /\ Utf8Idle
    /\ at = [t \in Threads |-> IF t = "h" THEN "ns_upstream" ELSE "none"]
    /\ upstream = <<>>
    /\ openAIResp = <<>>
    /\ doneClosed = FALSE
    /\ ctxDone = FALSE
    /\ ticks = 0
    /\ StreamIdle
    /\ PoolIdle
    /\ ConvIdle

SingleFrame == <<mu, callVars, ncalls, utf8Vars, doneClosed, ctxDone, ticks,
                 streamVars, convVars>>

\* resp, err := api.GenerateContent(ctx, antigravityReq, token)
\* a function_call part that also holds a text
TextCallPart == Part(<<65>>, FALSE, <<FunctionCall("call_4", "g", EmptyArgs)>>)

\* what api.GenerateContent may return to handleNonStreamRequest: also
\* several function calls, calls without id, calls on a thought or text part
SingleResults ==
    UpstreamResults
    \cup {UpstreamResponse(<<[parts |-> ps]>>, <<>>) :
              ps \in {<<CallPartNoID>>, <<CallPart, CallPartNoID, SignedCallPart>>,
                      <<ThoughtCallPart>>, <<TextCallPart>>,
                      <<TextPart, ThoughtCallPart, CallPart>>}}

SingleUpstream ==
    /\ at["h"] = "ns_upstream"
    /\ \E r \in SingleResults :
        /\ r.err => r \in ErrorsUnder(ctxDone)
        /\ ctxDone => r.err
        /\ upstream' = r
        /\ Goto("h", IF r.err THEN "ns_error" ELSE "ns_convert")
    /\ UNCHANGED <<poolVars, sw, openAIResp, SingleFrame>>

\* WriteError(w, getErrorStatus(err), err.Error()); return
SingleError ==
    /\ at["h"] = "ns_error"
    /\ sw' = [sw EXCEPT !.w = WriteError(sw.w, getErrorStatus(upstream),
                                         ErrorString(upstream))]
    /\ Goto("h", "ns_returned")
    /\ UNCHANGED <<poolVars, upstream, openAIResp, SingleFrame>>

\* converter.ConvertToOpenAIResponse(resp, req.Model): indexing
\* Candidates[0] of a response without candidates panics
SingleConvert ==
    /\ at["h"] = "ns_convert"
    /\ IF Len(upstream.candidates) = 0
       THEN /\ Goto("h", "panicked")
            /\ UNCHANGED openAIResp
       ELSE /\ openAIResp' = ConvertToOpenAIResponse(upstream)
            /\ Goto("h", "ns_write")
    /\ UNCHANGED <<poolVars, sw, upstream, SingleFrame>>

\* WriteJSON(w, http.StatusOK, openAIResp)
SingleWriteJSON ==
    /\ at["h"] = "ns_write"
    /\ sw' = [sw EXCEPT !.w = WriteJSON(sw.w, 200, openAIResp)]
    /\ Goto("h", "ns_returned")
    /\ UNCHANGED <<poolVars, upstream, openAIResp, SingleFrame>>

SingleNext ==
    \/ SingleUpstream
    \/ SingleError
    \/ SingleConvert
    \/ SingleWriteJSON
    \/ ClientDisconnect

SpecSingle == SingleInit /\ [][SingleNext]_vars

\* the HTTP status of a response: that of its error or JSON body, and 200
\* for an event stream
ResponseStatus(out) ==
    IF out # <<>> /\ out[1].type \in {"error_response", "json"}
    THEN out[1].payload[1] ELSE 200

\* the error messages given to the client
ErrorMessages(out) ==
    {out[i].payload[2] : i \in {j \in 1..Len(out) : out[j].type = "error_response"}}
    \cup {out[i].payload : i \in {j \in 1..Len(out) : out[j].type = "error"}}

\* the upstream call of the handler failed with a typed upstream error and
\* the handler is through with it
TypedErrorHandled ==
    /\ upstream # <<>>
    /\ upstream.kind = "api"
    /\ at["h"] \in {"ns_returned", "open_failed", "returned"}

\* C14: when the upstream call fails with a typed upstream error (status s,
\* message m) and the client is still there, the client gets status s and
\* message m unchanged, and no finish event as for a successful completion,
\* on the single-shot, the true-streaming and the bypass path.
C14_UpstreamErrorVerbatim ==
    (TypedErrorHandled /\ ~sw.w.broken) =>
        /\ ResponseStatus(sw.w.out) = upstream.status
        /\ ErrorMessages(sw.w.out) = {upstream.message}
        /\ CountOf(sw.w.out, "finish") = 0

-----------------------------------------------------------------------------
(* HandleChatCompletions and HandleChatCompletionsWithCredential: decode   *)
(* the body, get a credential from the account store, hand over to the     *)
(* single-shot or the streaming handler.                                   *)

Account(email, projectID, enable, usable) ==
    [email |-> email, projectID |-> projectID, enable |-> enable,
     usable |-> usable]

\* identities: "a@", "p", "b@", "q" are credentials that may be in the
\* store, "z@" and "r" never are
AccountA(enable, usable) == Account(<<97, 64>>, <<112>>, enable, usable)
AccountB(enable, usable) == Account(<<98, 64>>, <<113>>, enable, usable)

AccountLists ==
    {<<>>}
    \cup {<<AccountA(e, u)>> : e \in BOOLEAN, u \in BOOLEAN}
    \cup {<<AccountA(e, u), AccountB(TRUE, TRUE)>> : e \in BOOLEAN, u \in BOOLEAN}
    \cup {<<AccountA(FALSE, TRUE), AccountB(TRUE, FALSE)>>}

Identities == {<<97, 64>>, <<112>>, <<98, 64>>, <<113>>, <<122, 64>>, <<114>>}

\* an inbound request: the identity path segment if any, whether the body
\* decodes, and its stream flag
EntryRequests ==
    {[identity |-> id, bodyOK |-> b, stream |-> st] :
        id \in {<<>>} \cup {<<c>> : c \in Identities},
        b \in BOOLEAN, st \in BOOLEAN}

NoToken == [err |-> TRUE, token |-> <<>>]

TokenOf(accounts, hits) ==
    IF hits = {} THEN NoToken
    ELSE LET i == CHOOSE i \in hits : \A j \in hits : i <= j
         IN  IF accounts[i].usable THEN [err |-> FALSE, token |-> <<accounts[i]>>]
             ELSE NoToken

\* AccountStore.GetToken: an enabled credential that is usable, or an error
GetToken(accounts) ==
    TokenOf(accounts, {i \in 1..Len(accounts) :
                          accounts[i].enable /\ accounts[i].usable})

\* AccountStore.GetTokenByEmail: that credential, or an error
GetTokenByEmail(accounts, email) ==
    TokenOf(accounts, {i \in 1..Len(accounts) : accounts[i].email = email})

\* AccountStore.GetTokenByProjectID
GetTokenByProjectID(accounts, projectID) ==
    TokenOf(accounts, {i \in 1..Len(accounts) : accounts[i].projectID = projectID})

\* strings.Contains(s, "@")
ContainsAt(str) == \E i \in 1..Len(str) : str[i] = 64

LookupCredential_byProjectOnly(accounts, credential) ==
    GetTokenByProjectID(accounts, credential)

\* the lookup of HandleChatCompletionsWithCredential
LookupCredential(accounts, credential) ==
    IF ContainsAt(credential) THEN GetTokenByEmail(accounts, credential)
    ELSE GetTokenByProjectID(accounts, credential)

EntryInit ==
    /\ sw = NewStreamWriter
    /\ CallInit
    /\ ncalls = 0
    /\ Utf8Idle
    /\ at = [t \in Threads |-> IF t = "h" THEN "entry" ELSE "none"]
    /\ upstream = <<>>
    /\ openAIResp = <<>>
    /\ doneClosed = FALSE
    /\ ctxDone = FALSE
    /\ ticks = 0
    /\ StreamIdle
    /\ ConvIdle
    /\ pool \in {[accounts |-> a] : a \in AccountLists}
    /\ acq \in EntryRequests
    /\ served = <<>>

\* the answer of an entry handler before it hands over: an error status, or
\* the credential to go on with
EntryOutcome(accounts, req) ==
    IF ~req.bodyOK THEN [status |-> 400, token |-> <<>>]
    ELSE IF req.identity = <<>>
    THEN LET r == GetToken(accounts)
         IN  IF r.err THEN [status |-> 503, token |-> <<>>]
             ELSE [status |-> 0, token |-> r.token]
    ELSE LET r == LookupCredential(accounts, req.identity[1])
         IN  IF r.err THEN [status |-> 404, token |-> <<>>]
             ELSE [status |-> 0, token |-> r.token]

\* HandleChatCompletions, HandleChatCompletionsWithCredential
EntryHandle ==
    /\ at["h"] = "entry"
    /\ LET o == EntryOutcome(pool.accounts, acq)
       IN  IF o.status # 0
           THEN /\ sw' = [sw EXCEPT !.w = WriteError(sw.w, o.status, <<>>)]
                /\ Goto("h", "rejected")
                /\ UNCHANGED served
           ELSE /\ served' = Append(served, o.token[1])
                /\ Goto("h", IF acq.stream THEN "stream" ELSE "ns_upstream")
                /\ UNCHANGED sw
    /\ UNCHANGED <<pool, acq, upstream, openAIResp, SingleFrame>>

EntryNext ==
    \/ EntryHandle
    \/ SingleUpstream
    \/ SingleError
    \/ SingleConvert
    \/ SingleWriteJSON

SpecEntry == EntryInit /\ [][EntryNext]_vars

NoUsableCredential(accounts) ==
    ~\E i \in 1..Len(accounts) : accounts[i].enable /\ accounts[i].usable

\* a credential with this identity: an email when the segment holds '@', a
\* project id otherwise
Identified(account, segment) ==
    IF \E i \in 1..Len(segment) : segment[i] = 64
    THEN account.email = segment ELSE account.projectID = segment

Rejected(status) ==
    /\ at["h"] = "rejected"
    /\ Len(sw.w.out) = 1
    /\ sw.w.out[1].type = "error_response"
    /\ sw.w.out[1].payload[1] = status
    /\ upstream = <<>>
    /\ served = <<>>

IsErrorWrite(ev) ==
    \/ ev.type \in {"error_response", "error"}
    \/ ev.type = "content" /\ ev.payload = ErrorText(upstream)

\* C16: when the client has gone away while the upstream call was running
\* (the call returns the cancellation of its context), the handler writes no
\* error status, no error event and no error text to the response, on the
\* single-shot, the true-streaming and the bypass path.
C16_NoErrorOnDisconnect ==
    (upstream # <<>> /\ upstream.kind = "canceled") =>
        \A i \in 1..Len(sw.w.refused) : ~IsErrorWrite(sw.w.refused[i])

-----------------------------------------------------------------------------
(* CredentialPool.Acquire on one credential, by concurrent requests: an    *)
(* expired credential is refreshed under its own lock before it is         *)
(* returned.                                                               *)

MaxAcquirers == 3     \* most requests acquiring at the same time

Acquirers == 1..MaxAcquirers

\* the credential: its access token, whether its expiry has passed, whether
\* its refresh token is still valid, the holder of its refresh lock (0 when
\* free), and the refresh calls made for it
Credential(expired, refreshValid) ==
    [accessToken |-> "old", expired |-> expired, refreshValid |-> refreshValid,
     lock |-> 0, refreshCalls |-> 0]

Acquisition(pcv, token, err) == [pc |-> pcv, token |-> token, err |-> err]

RefreshInit ==
    /\ sw = NewStreamWriter
    /\ CallInit
    /\ ncalls = 0
    /\ Utf8Idle
    /\ BypassIdle
    /\ StreamIdle
    /\ ConvIdle
    /\ pool \in {Credential(e, v) : e \in BOOLEAN, v \in BOOLEAN}
    /\ acq = [g \in Acquirers |-> Acquisition("idle", "", FALSE)]
    /\ served = <<>>

RefreshFrame == <<sw, mu, callVars, ncalls, utf8Vars, bypassVars, streamVars,
                  convVars>>

\* a request starts an acquisition
AcquireStart(g) ==
    /\ acq[g].pc = "idle"
    /\ acq' = [acq EXCEPT ![g].pc = "check"]
    /\ UNCHANGED <<pool, served, RefreshFrame>>

\* the credential is returned as it is when it has not expired
AcquireCheck(g) ==
    /\ acq[g].pc = "check"
    /\ IF pool.expired
       THEN /\ acq' = [acq EXCEPT ![g].pc = "lock"]
            /\ UNCHANGED served
       ELSE /\ acq' = [acq EXCEPT ![g] = Acquisition("done", pool.accessToken, FALSE)]
            /\ served' = Append(served, <<g, "valid">>)
    /\ UNCHANGED <<pool, RefreshFrame>>

\* the refresh lock of the credential is taken
AcquireLock(g) ==
    /\ acq[g].pc = "lock"
    /\ pool.lock = 0
    /\ pool' = [pool EXCEPT !.lock = g]
    /\ acq' = [acq EXCEPT ![g].pc = "locked"]
    /\ UNCHANGED <<served, RefreshFrame>>

StillExpired_notLookedAt(cred) == TRUE

\* under the lock: has another request refreshed the credential meanwhile
StillExpired(cred) == cred.expired

\* under the lock: the refresh call is made when the credential is still
\* expired, otherwise the token another request obtained is returned
AcquireLocked(g) ==
    /\ acq[g].pc = "locked"
    /\ IF StillExpired(pool)
       THEN /\ pool' = [pool EXCEPT !.refreshCalls = @ + 1]
            /\ acq' = [acq EXCEPT ![g].pc = "refreshing"]
            /\ UNCHANGED served
       ELSE /\ pool' = [pool EXCEPT !.lock = 0]
            /\ acq' = [acq EXCEPT ![g] = Acquisition("done", pool.accessToken, FALSE)]
            /\ served' = Append(served, <<g, "refreshed_by_other">>)
    /\ UNCHANGED RefreshFrame

\* the refresh call returns: a new access token and expiry, or an error for
\* this acquisition; the lock is released
AcquireRefreshed(g) ==
    /\ acq[g].pc = "refreshing"
    /\ IF pool.refreshValid
       THEN /\ pool' = [pool EXCEPT !.accessToken = "new", !.expired = FALSE,
                                    !.lock = 0]
            /\ acq' = [acq EXCEPT ![g] = Acquisition("done", "new", FALSE)]
       ELSE /\ pool' = [pool EXCEPT !.lock = 0]
            /\ acq' = [acq EXCEPT ![g] = Acquisition("done", "", TRUE)]
    /\ served' = Append(served, <<g, "refreshed">>)
    /\ UNCHANGED RefreshFrame

RefreshNext ==
    \E g \in Acquirers :
        \/ AcquireStart(g)
        \/ AcquireCheck(g)
        \/ AcquireLock(g)
        \/ AcquireLocked(g)
        \/ AcquireRefreshed(g)

SpecRefresh == RefreshInit /\ [][RefreshNext]_vars

\* C17: when two or more acquisitions run at the same time on the same
\* expired credential whose refresh token is valid, exactly one refresh call
\* is made, and every acquisition returns the refreshed access token without
\* error.
C17_RefreshOnce ==
    pool.refreshValid =>
        /\ pool.refreshCalls <= 1
        /\ \A g \in Acquirers :
               acq[g].pc = "done" =>
                   /\ ~acq[g].err
                   /\ ~pool.expired
                   /\ acq[g].token = pool.accessToken
                   /\ pool.refreshCalls = 1 => acq[g].token = "new"

\* all requests have returned the new token, one of them after it waited for
\* the lock and found the credential refreshed by another
C17_Witness ==
    /\ pool.refreshValid
    /\ pool.refreshCalls = 1
    /\ \A g \in Acquirers : acq[g].pc = "done" /\ acq[g].token = "new"
    /\ Len(served) = MaxAcquirers
    /\ \E i \in 1..Len(served) : served[i][2] = "refreshed_by_other"

-----------------------------------------------------------------------------
(* EndpointManager: the routing mode and the round-robin cursor, used by   *)
(* concurrent requests and switched by the admin handlers.                 *)

MaxHistory == 6        \* most acquisitions and mode switches in one run
MaxSwitches == 2       \* most mode switches among them

EndpointCallers == 1..2

Modes == {"daily", "autopush", "production", "round-robin", "round-robin-dp"}

\* the mode when ENDPOINT_MODE is not set
DefaultMode == "daily"

\* the endpoints a mode routes to, in rotation order
RouteSet(mode) ==
    CASE mode = "round-robin"    -> <<"daily", "autopush", "production">>
      [] mode = "round-robin-dp" -> <<"daily", "production">>
      [] OTHER                   -> <<mode>>

IsRotation(mode) == mode \in {"round-robin", "round-robin-dp"}

\* the endpoint at cursor position idx of the mode's rotation
PickEndpoint(mode, idx) == RouteSet(mode)[(idx % Len(RouteSet(mode))) + 1]

\* the manager as configured at start: ENDPOINT_MODE or the default
EndpointManager(configured) ==
    [mode |-> configured, cursor |-> 0, lock |-> 0, configured |-> configured]

\* one entry of the history: an endpoint acquisition that returned, or a
\* mode-switch request that was answered
Acquired(mode, endpoint) ==
    [kind |-> "acquire", mode |-> mode, endpoint |-> endpoint, status |-> 0]

Switched(mode, status) ==
    [kind |-> "set", mode |-> mode, endpoint |-> "", status |-> status]

CountKind(h, kind) == Cardinality({i \in 1..Len(h) : h[i].kind = kind})

EndpointInit ==
    /\ sw = NewStreamWriter
    /\ CallInit
    /\ ncalls = 0
    /\ Utf8Idle
    /\ BypassIdle
    /\ StreamIdle
    /\ ConvIdle
    /\ pool \in {EndpointManager(m) : m \in Modes}
    /\ acq = [g \in EndpointCallers |-> [pc |-> "idle", idx |-> 0, mode |-> ""]]
    /\ served = <<>>

EndpointFrame == <<sw, mu, callVars, ncalls, utf8Vars, bypassVars, streamVars,
                   convVars>>

Started == Len(served)
               + Cardinality({g \in EndpointCallers : acq[g].pc # "idle"})

CursorFree_unguarded(mgr) == TRUE

\* the lock that guards the mode and the cursor is free
CursorFree(mgr) == mgr.lock = 0

\* a request starts an endpoint acquisition by taking the lock
GetEndpointLock(g) ==
    /\ acq[g].pc = "idle"
    /\ Started < MaxHistory
    /\ CursorFree(pool)
    /\ pool' = [pool EXCEPT !.lock = g]
    /\ acq' = [acq EXCEPT ![g].pc = "read"]
    /\ UNCHANGED <<served, EndpointFrame>>

\* the active mode and the cursor are read
GetEndpointRead(g) ==
    /\ acq[g].pc = "read"
    /\ acq' = [acq EXCEPT ![g] = [pc |-> "advance", idx |-> pool.cursor,
                                   mode |-> pool.mode]]
    /\ UNCHANGED <<pool, served, EndpointFrame>>

\* the cursor is moved past the position read (rotation modes only), the
\* lock is released and the endpoint is returned
GetEndpointAdvance(g) ==
    /\ acq[g].pc = "advance"
    /\ pool' = [pool EXCEPT
                   !.cursor = IF IsRotation(acq[g].mode) THEN acq[g].idx + 1 ELSE @,
                   !.lock = IF @ = g THEN 0 ELSE @]
    /\ served' = Append(served,
                        Acquired(acq[g].mode, PickEndpoint(acq[g].mode, acq[g].idx)))
    /\ acq' = [acq EXCEPT ![g].pc = "idle"]
    /\ UNCHANGED EndpointFrame

\* EndpointManager.SetMode: an unknown mode is an error and changes nothing
SetMode(mgr, mode) ==
    [err |-> mode \notin Modes,
     mgr |-> IF mode \in Modes THEN [mgr EXCEPT !.mode = mode] ELSE mgr]

SetModeStatus_alwaysOK(decoded, err) == 200

\* the status the handler answers with
SetModeStatus(decoded, err) == IF ~decoded \/ err THEN 400 ELSE 200

\* the modes a switch request may name; "staging" is not a mode
SwitchInputs == {"production", "round-robin", "round-robin-dp", "staging"}

\* HandleSetEndpointMode and HandleSetEndpoint: the body is decoded, the mode
\* is set under the manager's lock, the outcome is answered
HandleSetEndpointMode ==
    /\ CountKind(served, "set") < MaxSwitches
    /\ Started < MaxHistory
    /\ pool.lock = 0
    /\ \E decoded \in BOOLEAN, mode \in SwitchInputs :
          LET r == IF decoded THEN SetMode(pool, mode)
                              ELSE [err |-> FALSE, mgr |-> pool]
          IN  /\ pool' = r.mgr
              /\ served' = Append(served,
                     Switched(IF decoded THEN mode ELSE "",
                              SetModeStatus(decoded, r.err)))
    /\ UNCHANGED <<acq, EndpointFrame>>

EndpointNext ==
    \/ \E g \in EndpointCallers :
          \/ GetEndpointLock(g)
          \/ GetEndpointRead(g)
          \/ GetEndpointAdvance(g)
    \/ HandleSetEndpointMode

SpecEndpoint == EndpointInit /\ [][EndpointNext]_vars

\* the acquisitions of the history, in the order they returned
Acquisitions == SelectSeq(served, LAMBDA e : e.kind = "acquire")

\* the endpoint after e in the rotation of the mode
NextInRotation(mode, e) ==
    LET rs == RouteSet(mode)
        i  == CHOOSE j \in 1..Len(rs) : rs[j] = e
    IN  rs[(i % Len(rs)) + 1]

\* C18: under a rotation mode each acquisition returns the endpoint after
\* the one the acquisition before it returned, so any k*N consecutive
\* acquisitions over N endpoints visit each endpoint exactly k times, also
\* when the acquisitions are issued concurrently; the shared cursor has
\* advanced by exactly one per acquisition.
C18_RoundRobinFairness ==
    LET a == Acquisitions
    IN  /\ \A i \in 1..(Len(a) - 1) :
               (IsRotation(a[i].mode) /\ a[i + 1].mode = a[i].mode) =>
                   a[i + 1].endpoint = NextInRotation(a[i].mode, a[i].endpoint)
        /\ \A i \in 1..Len(a), k \in 1..MaxHistory :
               LET n == Len(RouteSet(a[i].mode))
                   w == i..(i + k * n - 1)
               IN  (/\ IsRotation(a[i].mode)
                    /\ i + k * n - 1 <= Len(a)
                    /\ \A j \in w : a[j].mode = a[i].mode) =>
                       \A x \in 1..n :
                           Cardinality({j \in w :
                               a[j].endpoint = RouteSet(a[i].mode)[x]}) = k
        /\ pool.cursor =
               Cardinality({i \in 1..Len(a) : IsRotation(a[i].mode)})

\* two full rounds over the three endpoints were acquired
C18_Witness ==
    LET a == Acquisitions
    IN  /\ Len(a) = 6
        /\ \A i \in 1..6 : a[i].mode = "round-robin"
        /\ pool.cursor = 6

\* the mode in force for entry i of the history: the mode of the last
\* switch accepted before it
ActiveBefore(i) ==
    LET js == {j \in 1..(i - 1) : served[j].kind = "set" /\ served[j].status = 200}
    IN  IF js = {} THEN pool.configured
        ELSE served[CHOOSE j \in js : \A x \in js : x <= j].mode

\* C19: every acquisition returns an endpoint of the mode set by the last
\* switch accepted before it, whatever is switched afterwards; a switch to
\* an unknown mode is answered 400 and the active mode stays as it was.
C19_ModeSwitch ==
    /\ \A i \in 1..Len(served) :
           /\ served[i].kind = "acquire" =>
                  /\ served[i].mode = ActiveBefore(i)
                  /\ \E x \in 1..Len(RouteSet(ActiveBefore(i))) :
                         served[i].endpoint = RouteSet(ActiveBefore(i))[x]
           /\ served[i].kind = "set" =>
                  (served[i].status = 400 <=> served[i].mode \notin Modes)
    /\ pool.mode = ActiveBefore(Len(served) + 1)

\* an acquisition under the first mode, an accepted switch, an acquisition
\* under the new mode, a rejected switch, and one more acquisition
C19_Witness ==
    \E i \in 1..Len(served) :
        /\ i + 4 <= Len(served)
        /\ pool.configured = DefaultMode
        /\ served[i].kind = "acquire" /\ served[i].endpoint = "daily"
        /\ served[i + 1].kind = "set" /\ served[i + 1].mode = "production"
        /\ served[i + 1].status = 200
        /\ served[i + 2].kind = "acquire" /\ served[i + 2].endpoint = "production"
        /\ served[i + 3].kind = "set" /\ served[i + 3].mode = "staging"
        /\ served[i + 3].status = 400
        /\ served[i + 4].kind = "acquire" /\ served[i + 4].endpoint = "production"

-----------------------------------------------------------------------------
(* HandleImportTOML: bulk import of credential records into the store.     *)

MaxRecords == 3       \* most records in one import payload

\* record i of a payload: well formed or not
TomlRecord(i, wellFormed) == [id |-> i, wellFormed |-> wellFormed]

\* the payloads: whether the text is TOML at all, whether the store takes
\* the parsed document (ImportFromTOML returns no error), and its records
TomlTexts ==
    {[valid |-> v, importable |-> a, records |-> [i \in 1..n |-> TomlRecord(i, f[i])]] :
        v \in BOOLEAN, a \in BOOLEAN, n \in 0..MaxRecords,
        f \in [1..MaxRecords -> BOOLEAN]}

ImportRequests ==
    {[decoded |-> d, toml |-> t, replaceExisting |-> r] :
        d \in BOOLEAN, t \in TomlTexts, r \in BOOLEAN}

\* utils.ParseTOML: fails on text that is not TOML
ParseTOML(toml) ==
    [err |-> ~toml.valid,
     data |-> [importable |-> toml.importable, records |-> toml.records]]

\* the account a well-formed record describes
AccountOf(rec) == Account(<<48 + rec.id, 64>>, <<48 + rec.id>>, TRUE, TRUE)

RECURSIVE ImportRecords(_, _)
\* the accounts after the records are imported one by one, a malformed
\* record being passed over
ImportRecords(accounts, data) ==
    IF data = <<>> THEN accounts
    ELSE ImportRecords(IF data[1].wellFormed
                       THEN Append(accounts, AccountOf(data[1]))
                       ELSE accounts,
                       Tail(data))

\* AccountStore.ImportFromTOML: the number imported and the store after,
\* or an error with the store as it was
ImportFromTOML(accounts, data) ==
    LET after == ImportRecords(accounts, data.records)
    IN  IF ~data.importable
        THEN [imported |-> 0, accounts |-> accounts, err |-> TRUE]
        ELSE [imported |-> Len(after) - Len(accounts), accounts |-> after,
              err |-> FALSE]

ClearIfReplace_never(accounts, replaceExisting) == accounts

\* AccountStore.Clear, called when the request asks to replace
ClearIfReplace(accounts, replaceExisting) ==
    IF replaceExisting THEN <<>> ELSE accounts

ImportInit ==
    /\ sw = NewStreamWriter
    /\ CallInit
    /\ ncalls = 0
    /\ Utf8Idle
    /\ BypassIdle
    /\ StreamIdle
    /\ ConvIdle
    /\ pool \in {[accounts |-> a, loaded |-> a] :
                    a \in {<<>>, <<AccountA(TRUE, TRUE)>>,
                           <<AccountA(TRUE, TRUE), AccountB(FALSE, TRUE)>>}}
    /\ acq \in ImportRequests
    /\ served = <<>>

\* the answer of a successful import
ImportAnswer(imported, total) ==
    [success |-> TRUE, imported |-> imported, skipped |-> 0, total |-> total]

HandleImportTOML ==
    /\ served = <<>>
    /\ IF ~acq.decoded
       THEN /\ sw' = [sw EXCEPT !.w = WriteError(sw.w, 400, <<>>)]
            /\ UNCHANGED pool
       ELSE LET parsed  == ParseTOML(acq.toml)
                cleared == ClearIfReplace(pool.accounts, acq.replaceExisting)
                r       == ImportFromTOML(cleared, parsed.data)
            IN  IF parsed.err
                THEN /\ sw' = [sw EXCEPT !.w = WriteError(sw.w, 400, <<>>)]
                     /\ UNCHANGED pool
                ELSE IF r.err
                THEN /\ sw' = [sw EXCEPT !.w = WriteError(sw.w, 400, <<>>)]
                     /\ pool' = [pool EXCEPT !.accounts = cleared]
                ELSE /\ pool' = [pool EXCEPT !.accounts = r.accounts]
                     /\ sw' = [sw EXCEPT !.w =
                            WriteJSON(sw.w, 200,
                                      ImportAnswer(r.imported, Len(r.accounts)))]
    /\ served' = <<"answered">>
    /\ UNCHANGED <<acq, mu, callVars, ncalls, utf8Vars, bypassVars, streamVars,
                   convVars>>

ImportNext == HandleImportTOML

SpecImport == ImportInit /\ [][ImportNext]_vars

\* the well-formed records of a payload, as accounts, in payload order
WellFormedAccounts(data) ==
    LET wf == SelectSeq(data, LAMBDA rec : rec.wellFormed)
    IN  [i \in 1..Len(wf) |-> AccountOf(wf[i])]

-----------------------------------------------------------------------------
(* The upstream request each handler sends: handleNonStreamRequest,        *)
(* handleStreamRequest and handleBypassStream.                             *)

ImageModel == "gemini-3-pro-image"

IsImageModel(model) == model = ImageModel

IsBypassModel(model) == model = "gemini-3-pro-high-bypass"

\* the hint appended to the system instruction of an image request
ImageHint == <<72>>

\* the requests: any model, with or without tools, streamed or not
SendRequests ==
    {[model |-> m, messages |-> ms, stop |-> <<>>, temperature |-> <<>>,
      topP |-> <<>>, maxTokens |-> 0, tools |-> t, stream |-> st] :
        m \in Models \cup {ImageModel},
        ms \in BoundedSeq({OpenAIMessage("system", <<83>>, <<>>, ""),
                           OpenAIMessage("user", <<85>>, <<>>, "")}, 2),
        t \in {<<>>, <<"f">>}, st \in BOOLEAN}

SendInit ==
    /\ sw = NewStreamWriter
    /\ CallInit
    /\ ncalls = 0
    /\ Utf8Idle
    /\ BypassIdle
    /\ StreamIdle
    /\ PoolIdle
    /\ convReq \in {<<req>> : req \in SendRequests}
    /\ convOut = <<>>
    /\ StopIdle

\* the special handling of image models in handleNonStreamRequest
ImageSpecial(antigravityReq) ==
    LET si == antigravityReq.request.systemInstruction
    IN  [antigravityReq EXCEPT
            !.requestType = "image_gen",
            !.request.systemInstruction =
                IF si # <<>> /\ Len(si[1].parts) > 0
                THEN <<[si[1] EXCEPT !.parts[1].text = @ \o ImageHint]>>
                ELSE si,
            !.request.tools = <<>>,
            !.request.toolConfig = <<>>]

\* handleNonStreamRequest up to the upstream call
SendNonStream ==
    /\ convOut = <<>>
    /\ ~convReq[1].stream
    /\ LET antigravityReq == ConvertOpenAIToAntigravity(convReq[1])
       IN  convOut' = <<IF IsImageModel(convReq[1].model)
                        THEN ImageSpecial(antigravityReq)
                        ELSE antigravityReq>>
    /\ UNCHANGED <<convReq, stopVars, sw, mu, callVars, ncalls, utf8Vars, bypassVars,
                   streamVars, poolVars>>

\* handleStreamRequest up to the upstream call
SendStream ==
    /\ convOut = <<>>
    /\ convReq[1].stream
    /\ ~IsBypassModel(convReq[1].model)
    /\ convOut' = <<ConvertOpenAIToAntigravity(convReq[1])>>
    /\ UNCHANGED <<convReq, stopVars, sw, mu, callVars, ncalls, utf8Vars, bypassVars,
                   streamVars, poolVars>>

\* handleBypassStream up to the upstream call
SendBypass ==
    /\ convOut = <<>>
    /\ convReq[1].stream
    /\ IsBypassModel(convReq[1].model)
    /\ LET modifiedReq == [convReq[1] EXCEPT
                              !.model = ResolveModelName(convReq[1].model)]
       IN  convOut' = <<ConvertOpenAIToAntigravity(modifiedReq)>>
    /\ UNCHANGED <<convReq, stopVars, sw, mu, callVars, ncalls, utf8Vars, bypassVars,
                   streamVars, poolVars>>

SendNext == SendNonStream \/ SendStream \/ SendBypass

SpecSend == SendInit /\ [][SendNext]_vars

\* C21: the upstream request of every request for an image model, streamed
\* or not, has the request type image generation, the hint appended to the
\* system instruction, and neither tools nor tool config.
C21_ImageRequestShape ==
    (convOut # <<>> /\ IsImageModel(convReq[1].model)) =>
        LET sent == convOut[1]
            si   == sent.request.systemInstruction
        IN  /\ sent.requestType = "image_gen"
            /\ si # <<>>
            /\ si[1].parts[1].text
                   = extractSystemInstruction(convReq[1].messages) \o ImageHint
            /\ sent.request.tools = <<>>
            /\ sent.request.toolConfig = <<>>

-----------------------------------------------------------------------------
(* Properties of ConvertToOpenAIResponse in handleNonStreamRequest.        *)

\* the function_call parts of the first candidate, in part order
FunctionCallParts(resp) ==
    SelectSeq(resp.candidates[1].parts, LAMBDA p : p.functionCall # <<>>)

\* C24: the completion holds exactly one tool call per function_call part
\* of the first candidate, in part order, with the upstream id when there
\* is one and a non-empty generated id otherwise, also for a function_call
\* part that has the thought flag or a text.
C24_OneToolCallPerPart ==
    (openAIResp # <<>> /\ upstream # <<>> /\ ~upstream.err) =>
        LET fcs   == FunctionCallParts(upstream)
            calls == openAIResp.choices[1].message.toolCalls
        IN  /\ Len(calls) = Len(fcs)
            /\ \A i \in 1..Len(fcs) :
                   /\ calls[i].name = fcs[i].functionCall[1].name
                   /\ calls[i].id # ""
                   /\ fcs[i].functionCall[1].id # "" =>
                          calls[i].id = fcs[i].functionCall[1].id

\* a tool call has reached the client: in a tool_calls event, or in the
\* message of the completion
ToolCallDelivered(out) ==
    \E i \in 1..Len(out) :
        \/ out[i].type = "tool_calls" /\ Len(out[i].payload) > 0
        \/ /\ out[i].type = "json"
           /\ Len(out[i].payload[2].choices[1].message.toolCalls) > 0

\* the finish reasons the client was given
FinishReasons(out) ==
    {out[i].payload[1] : i \in {j \in 1..Len(out) : out[j].type = "finish"}}
    \cup {out[i].payload[2].choices[1].finishReason[1] :
              i \in {j \in 1..Len(out) : out[j].type = "json"}}

-----------------------------------------------------------------------------
(* Order of the terminal burst of handleBypassStream.                      *)

\* the place of an event in the burst (0: not part of it)
BurstRank(ev) ==
    CASE ev.type = "reasoning"  -> 1
      [] ev.type = "content"    -> 2
      [] ev.type = "tool_calls" -> 3
      [] ev.type = "finish"     -> 4
      [] ev.type = "done"       -> 5
      [] OTHER                  -> 0

\* C26: the events of the bypass burst reach the client in the order
\* reasoning, content, tool calls, finish, sentinel; a component that is
\* empty is left out and the others keep their order.
C26_BurstOrder ==
    LET out == sw.w.out
    IN  \A i \in 1..Len(out), j \in 1..Len(out) :
            (i < j /\ BurstRank(out[i]) > 0 /\ BurstRank(out[j]) > 0) =>
                BurstRank(out[i]) <= BurstRank(out[j])

-----------------------------------------------------------------------------
(* Lines of the upstream stream that ProcessStreamResponse passes over.    *)

\* C27: reading a line without the payload marker, or with a payload that
\* does not decode, delivers no chunk, leaves the captured usage and the
\* pending tool calls as they were, writes nothing, raises no error and
\* leaves the read loop running.
C27_SkippedLine ==
    [][(/\ Len(lineKinds') = Len(lineKinds) + 1
        /\ lineKinds'[Len(lineKinds')] \in {"other", "undecodable"}) =>
           /\ chunks' = chunks
           /\ usage' = usage
           /\ toolCalls' = toolCalls
           /\ handlerToolCalls' = handlerToolCalls
           /\ sw' = sw
           /\ streamErr' = streamErr /\ ~streamErr'
           /\ at'["h"] = "reading"]_vars

\* after a pending tool call, a line without the marker and an undecodable
\* line, the stream ended and the tool call and the usage came through
C27_Witness ==
    /\ lineKinds = <<"data", "other", "undecodable">>
    /\ at["h"] = "returned"
    /\ ~streamErr
    /\ usage # <<>>
    /\ Len(chunks) > 0
    /\ chunks[Len(chunks)].type = "tool_calls"

-----------------------------------------------------------------------------
(* The usage ProcessStreamResponse returns.                                *)

-----------------------------------------------------------------------------
(* The function name given to a tool result.                               *)

RECURSIVE ResponseIDs(_)
\* the ids of the function_response parts of the turns, in order
ResponseIDs(contents) ==
    IF contents = <<>> THEN <<>>
    ELSE LET resps == SelectSeq(contents[1].parts,
                                LAMBDA p : p.functionResponse # <<>>)
         IN  [j \in 1..Len(resps) |-> resps[j].functionResponse[1].id]
                 \o ResponseIDs(Tail(contents))

\* the turns before turn t that hold a function_call part with this id
HoldersBefore(contents, t, id) ==
    {k \in 1..(t - 1) :
        \E q \in 1..Len(contents[k].parts) :
            /\ contents[k].parts[q].functionCall # <<>>
            /\ contents[k].parts[q].functionCall[1].id = id}

\* C29: every tool message gives a function_response part carrying its id,
\* in message order; the name of the part is that of a function_call part
\* with the same id in the last earlier turn that holds one, and is empty
\* when no earlier turn holds one.
C29_ToolResultCorrelation ==
    convOut # <<>> =>
        LET ms    == convReq[1].messages
            out   == convOut[1].request.contents
            tools == SelectSeq(ms, LAMBDA m : m.role = "tool")
        IN  /\ ResponseIDs(out) = [j \in 1..Len(tools) |-> tools[j].toolCallID]
            /\ \A t \in 1..Len(out) : \A j \in 1..Len(out[t].parts) :
                   out[t].parts[j].functionResponse # <<>> =>
                       LET resp == out[t].parts[j].functionResponse[1]
                           holders == HoldersBefore(out, t, resp.id)
                       IN  IF holders = {} THEN resp.name = ""
                           ELSE LET last == CHOOSE k \in holders :
                                                \A h \in holders : h <= k
                                IN  \E q \in 1..Len(out[last].parts) :
                                        /\ out[last].parts[q].functionCall # <<>>
                                        /\ out[last].parts[q].functionCall[1].id = resp.id
                                        /\ out[last].parts[q].functionCall[1].name = resp.name

\* the id call_1 was used for f and later for g: the first result is named
\* f, the second g, and a result for an unknown id has an empty name
C29_Witness ==
    /\ convOut # <<>>
    /\ Len(convReq[1].messages) = 5
    /\ LET out == convOut[1].request.contents
       IN  /\ Len(out) = 4
           /\ out[2].parts[1].functionResponse[1].name = "f"
           /\ Len(out[4].parts) = 2
           /\ out[4].parts[1].functionResponse[1].id = "call_1"
           /\ out[4].parts[1].functionResponse[1].name = "g"
           /\ out[4].parts[2].functionResponse[1].id = "call_9"
           /\ out[4].parts[2].functionResponse[1].name = ""

-----------------------------------------------------------------------------
(* Stop sequences over several requests: buildGenerationConfig with the    *)
(* slices of Go. A slice is a backing array, a length and a capacity;      *)
(* append writes into the backing array when the capacity allows it and    *)
(* into a new array otherwise.                                             *)

MaxBuilds == 3        \* most requests translated in one behaviour

Builders == 1..2

\* the stop lists a request can carry
StopInputs == {<<>>, <<"END">>, <<"A", "B">>}

\* the package variable: a slice over array 1, filled to its capacity
DefaultStopSlice ==
    [arr |-> 1, len |-> Len(DefaultStopSequences), cap |-> Len(DefaultStopSequences)]

\* the elements seen through a slice
SliceView(arrs, s) == SubSeq(arrs[s.arr], 1, s.len)

GoAppend_shared(arrs, s, elems) ==
    [arrays |-> [arrs EXCEPT ![s.arr] = SubSeq(@, 1, s.len) \o elems],
     slice  |-> [s EXCEPT !.len = s.len + Len(elems)]]

\* append(s, elems...): in place within the capacity, else into a new array
GoAppend(arrs, s, elems) ==
    IF s.len + Len(elems) <= s.cap
    THEN [arrays |-> [arrs EXCEPT ![s.arr] =
                         [i \in 1..s.cap |->
                             IF i > s.len /\ i <= s.len + Len(elems)
                             THEN elems[i - s.len] ELSE @[i]]],
          slice  |-> [s EXCEPT !.len = s.len + Len(elems)]]
    ELSE [arrays |-> Append(arrs, SliceView(arrs, s) \o elems),
          slice  |-> [arr |-> Len(arrs) + 1,
                      len |-> s.len + Len(elems),
                      cap |-> s.len + Len(elems)]]

NoBuild == [at |-> "idle", stop |-> <<>>, slice |-> <<>>]

StopInit ==
    /\ sw = NewStreamWriter
    /\ CallInit
    /\ ncalls = 0
    /\ Utf8Idle
    /\ BypassIdle
    /\ StreamIdle
    /\ PoolIdle
    /\ convReq = <<>>
    /\ convOut = <<>>
    /\ arrays = <<DefaultStopSequences>>
    /\ builds = [b \in Builders |-> NoBuild]
    /\ stopLog = <<>>

StopFrame ==
    <<poolVars, sw, mu, callVars, ncalls, utf8Vars, bypassVars, streamVars,
      convReq, convOut>>

\* the requests begun so far
Begun == Len(stopLog) + Cardinality({b \in Builders : builds[b].at # "idle"})

\* config := &GenerationConfig{StopSequences: DefaultStopSequences}
BuildConfig(b) ==
    /\ builds[b].at = "idle"
    /\ Begun < MaxBuilds
    /\ \E stop \in StopInputs :
           builds' = [builds EXCEPT ![b] =
                         [at |-> "config", stop |-> stop, slice |-> <<DefaultStopSlice>>]]
    /\ UNCHANGED <<StopFrame, arrays, stopLog>>

\* if len(req.Stop) > 0 { config.StopSequences = append(...) }
BuildAppend(b) ==
    /\ builds[b].at = "config"
    /\ IF Len(builds[b].stop) > 0
       THEN LET r == GoAppend(arrays, builds[b].slice[1], builds[b].stop)
            IN  /\ arrays' = r.arrays
                /\ builds' = [builds EXCEPT ![b].at = "built", ![b].slice = <<r.slice>>]
       ELSE /\ arrays' = arrays
            /\ builds' = [builds EXCEPT ![b].at = "built"]
    /\ UNCHANGED <<StopFrame, stopLog>>

\* the handler passes the translated request to the upstream call, which
\* reads the stop sequences through the slice
BuildSend(b) ==
    /\ builds[b].at = "built"
    /\ stopLog' = Append(stopLog, [own |-> builds[b].stop,
                                   sent |-> SliceView(arrays, builds[b].slice[1])])
    /\ builds' = [builds EXCEPT ![b] = NoBuild]
    /\ UNCHANGED <<StopFrame, arrays>>

StopNext ==
    \/ \E b \in Builders : BuildConfig(b)
    \/ \E b \in Builders : BuildAppend(b)
    \/ \E b \in Builders : BuildSend(b)

SpecStop == StopInit /\ [][StopNext]_vars

\* C30: whatever requests are translated, one after another or at the same
\* time, the stop sequences sent for a request are the baseline followed
\* by the request's own stop sequences in order, the same holds for a
\* request translated and not sent yet, and the baseline keeps its value.
C30_StopSequences ==
    LET baseline == <<"<|user|>", "<|end|>">>
    IN  /\ SliceView(arrays, DefaultStopSlice) = baseline
        /\ \A i \in 1..Len(stopLog) :
               stopLog[i].sent = baseline \o stopLog[i].own
        /\ \A b \in Builders :
               builds[b].at = "built" =>
                   SliceView(arrays, builds[b].slice[1]) = baseline \o builds[b].stop

\* a request with one stop sequence was sent, and two requests with other
\* stop lists, one of them empty, are translated at the same time
C30_Witness ==
    /\ Len(stopLog) = 1
    /\ stopLog[1].own = <<"END">>
    /\ stopLog[1].sent = <<"<|user|>", "<|end|>", "END">>
    /\ builds[1].at = "built"
    /\ builds[1].stop = <<"A", "B">>
    /\ builds[2].at = "built"
    /\ builds[2].stop = <<>>

-----------------------------------------------------------------------------
(* Termination of the heartbeat goroutine of handleBypassStream. The       *)
(* goroutines are scheduled fairly, a call made under a cancelled context  *)
(* returns, and a select whose done or ctx.Done() case is ready again and  *)
(* again takes it in the end; a call under a live context may take for     *)
(* ever, and the ticker may fire or not.                                   *)

\* a step of goroutine t inside a method of the writer
TaskStep(t) ==
    /\ Lock(t) \/ ReadSentRole(t) \/ Complete(t)
    /\ UNCHANGED <<poolVars, ncalls, utf8Vars, bypassVars, streamVars, convVars>>

HandlerProgress ==
    \/ BypassFirstHeartbeat
    \/ BypassFirstHeartbeatFailed
    \/ BypassSpawn
    \/ ctxDone /\ BypassUpstream
    \/ BypassCloseDone
    \/ BypassErrorContent
    \/ BypassErrorFinish
    \/ BypassConvert
    \/ BypassReasoning
    \/ BypassToolCalls
    \/ BypassContent
    \/ BypassFinish
    \/ BypassReturn
    \/ TaskStep("h")

HeartbeatProgress == HeartbeatTickReturn \/ TaskStep("hb")

HeartbeatStop == HeartbeatDone \/ HeartbeatCtxDone

SpecBypassLive ==
    /\ SpecBypass
    /\ WF_vars(HandlerProgress)
    /\ WF_vars(HeartbeatProgress)
    /\ SF_vars(HeartbeatStop)

\* the upstream call has returned, the client has gone, or a heartbeat
\* write of the goroutine has failed
StopDue ==
    \/ upstream # <<>>
    \/ sw.w.broken
    \/ at["hb"] = "tick_ret" /\ pc["hb"] = "run" /\ ret["hb"]

\* the heartbeat goroutine has returned, or the handler has returned
\* without starting it
HeartbeatOver ==
    \/ at["hb"] = "stopped"
    \/ at["hb"] = "unborn" /\ at["h"] = "returned"

\* C31: once the upstream call has returned, the client has disconnected or
\* a heartbeat write has failed, the heartbeat goroutine terminates in the
\* end, and a terminated goroutine stays terminated, calls no method of
\* the writer and no heartbeat event is written any more.
C31_HeartbeatStops ==
    /\ StopDue ~> HeartbeatOver
    /\ [][at["hb"] = "stopped" =>
              /\ at'["hb"] = "stopped"
              /\ op'["hb"] = NoOp
              /\ CountOf(sw'.w.out, "heartbeat") = CountOf(sw.w.out, "heartbeat")]_vars

\* the client went away during the upstream call and the goroutine, after
\* a tick, has returned before the call did
C31_Witness ==
    /\ at["hb"] = "stopped"
    /\ at["h"] = "upstream"
    /\ upstream = <<>>
    /\ sw.w.broken
    /\ ticks >= 1

-----------------------------------------------------------------------------
(* The opening of a bypass response.                                       *)

\* the handler has come to the upstream call
UpstreamIssued == at["h"] \notin {"start", "first_ret", "returned"} \/ upstream # <<>>

\* C32: the wire of a bypass response opens with the role announcement,
\* then a heartbeat; both are on the wire when the heartbeat goroutine
\* exists or the handler has come to the upstream call; and a handler whose
\* first heartbeat returned an error returns at once, with no goroutine
\* started and no upstream call made, then or later.
C32_FirstHeartbeat ==
    /\ [](/\ Len(sw.w.out) >= 1 => sw.w.out[1] = RoleEvent
          /\ Len(sw.w.out) >= 2 => sw.w.out[2] = HeartbeatEvent
          /\ (at["hb"] # "unborn" \/ UpstreamIssued) => Len(sw.w.out) >= 2
          /\ (at["h"] = "returned" /\ at["hb"] = "unborn") =>
                 upstream = <<>> /\ ticks = 0)
    /\ [][(at["h"] = "first_ret" /\ pc["h"] = "run" /\ ret["h"]) =>
              (at'["h"] \in {"first_ret", "returned"}
               /\ at'["hb"] = "unborn" /\ upstream' = <<>>)]_vars
    /\ [][(at["h"] = "returned" /\ at["hb"] = "unborn") =>
              (at' = at /\ upstream' = upstream)]_vars

\* the client was gone before the first heartbeat: the handler has
\* returned, nothing is on the wire, no goroutine, no upstream call
C32_Witness ==
    /\ at["h"] = "returned"
    /\ at["hb"] = "unborn"
    /\ ret["h"]
    /\ sw.w.broken
    /\ sw.w.out = <<>>
    /\ sw.w.refused = <<RoleEvent, HeartbeatEvent>>
    /\ upstream = <<>>

-----------------------------------------------------------------------------
(* The sink below the events. The ResponseWriter is not safe for           *)
(* concurrent use: the bytes of one Write call reach it in pieces, here     *)
(* two per event, and pieces of calls made at the same time may mix. Two    *)
(* goroutines call the methods of one writer.                               *)

WireOps == ConcOps \cup {Op("WriteFinish", <<"stop", <<>>>>)}

\* the two pieces of each event, in the order they are written
Pieces(t, evs) ==
    [i \in 1..(2 * Len(evs)) |->
        [by |-> t, ev |-> evs[(i + 1) \div 2], half |-> 2 - (i % 2)]]

WireInit ==
    /\ sw = NewStreamWriter
    /\ CallInit
    /\ ncalls = 0
    /\ Utf8Idle
    /\ BypassIdle
    /\ StreamIdle
    /\ PoolIdle
    /\ ConvIdle

WireFrame == <<poolVars, utf8Vars, bypassVars, streamVars, convVars>>

WireCall ==
    /\ ncalls < MaxCalls
    /\ \E t \in Threads, o \in WireOps : Call(t, o)
    /\ ncalls' = ncalls + 1
    /\ UNCHANGED WireFrame

WireLock == \E t \in Threads : Lock(t) /\ UNCHANGED <<WireFrame, ncalls>>

WireReadSentRole ==
    \E t \in Threads : ReadSentRole(t) /\ UNCHANGED <<WireFrame, ncalls>>

\* the method body up to its writes: the flag and the buffers get their
\* new values and the events of the call are handed to the sink
WireBody(t) ==
    /\ \/ pc[t] = "checked"
       \/ pc[t] = "locked" /\ ~CallsWriteRole(op[t].m)
    /\ LET r == ApplyOp(sw, op[t], seen[t])
           evs == SubSeq(r.sw.w.out, Len(sw.w.out) + 1, Len(r.sw.w.out))
       IN  /\ sw' = r.sw
           /\ ret' = [ret EXCEPT ![t] = r.err]
           /\ wire' = [wire EXCEPT !.pending[t] = Pieces(t, evs)]
    /\ pc' = [pc EXCEPT ![t] = "writing"]
    /\ UNCHANGED <<WireFrame, ncalls, mu, op, seen>>

\* the next piece of the call reaches the sink
WirePiece(t) ==
    /\ pc[t] = "writing"
    /\ wire.pending[t] # <<>>
    /\ wire' = [pieces |-> Append(wire.pieces, Head(wire.pending[t])),
                pending |-> [wire.pending EXCEPT ![t] = Tail(@)]]
    /\ UNCHANGED <<WireFrame, ncalls, sw, mu, pc, op, seen, ret>>

\* the deferred sw.mu.Unlock()
WireUnlock(t) ==
    /\ pc[t] = "writing"
    /\ wire.pending[t] = <<>>
    /\ mu' = "none"
    /\ pc' = [pc EXCEPT ![t] = "run"]
    /\ op' = [op EXCEPT ![t] = NoOp]
    /\ UNCHANGED <<WireFrame, ncalls, sw, seen, ret, wire>>

WireNext ==
    \/ WireCall
    \/ WireLock
    \/ WireReadSentRole
    \/ \E t \in Threads : WireBody(t)
    \/ \E t \in Threads : WirePiece(t)
    \/ \E t \in Threads : WireUnlock(t)

SpecWire == WireInit /\ [][WireNext]_vars

\* the goroutine is between Lock and Unlock of a method: there it reads
\* and sets the role flag and the buffers and writes to the sink
InMethod(t) == pc[t] \in {"locked", "checked", "writing"}

\* C33: a goroutine that is inside a method of the writer holds the mutex,
\* so no two are inside at the same time; and on the sink the second piece
\* of every event comes right after its first piece, so the pieces of two
\* events never mix and every event arrives whole.
C33_WritesSerialized ==
    /\ \A t \in Threads : InMethod(t) => mu = t
    /\ \A i \in 1..Len(wire.pieces) :
           /\ wire.pieces[i].half = 2 =>
                  i > 1 /\ wire.pieces[i - 1] = [wire.pieces[i] EXCEPT !.half = 1]
           /\ (wire.pieces[i].half = 1 /\ i < Len(wire.pieces)) =>
                  wire.pieces[i + 1] = [wire.pieces[i] EXCEPT !.half = 2]
    /\ (\A t \in Threads : pc[t] = "run") =>
           Len(wire.pieces) = 2 * Len(sw.w.out)

\* one goroutine is in the middle of writing an event while the other,
\* which has written before, waits for the mutex
C33_Witness ==
    /\ pc["hb"] = "writing"
    /\ Len(wire.pending["hb"]) = 1
    /\ pc["h"] = "wait"
    /\ \E i \in 1..Len(wire.pieces) : wire.pieces[i].by = "h"
    /\ wire.pieces[Len(wire.pieces)].by = "hb"
    /\ wire.pieces[Len(wire.pieces)].half = 1

-----------------------------------------------------------------------------
(* The sentinel line of the upstream stream.                               *)

\* the done chunk has been passed to the callback
DoneDelivered == \E i \in 1..Len(chunks) : chunks[i].type = "done"

\* C34: the done chunk passed to the callback at the sentinel is the last
\* chunk it receives, and once it has been passed no further line is read
\* and no further chunk is passed.
C34_SentinelEndsStream ==
    /\ [](\A i \in 1..Len(chunks) : chunks[i].type = "done" => i = Len(chunks))
    /\ [][DoneDelivered =>
              (lineKinds' = lineKinds /\ nlines' = nlines /\ chunks' = chunks)]_vars

-----------------------------------------------------------------------------
(* The turns that hold tool results.                                       *)

\* C35: an upstream turn that holds a function_response part holds only
\* function_response parts.
C35_FoldOnlyResults ==
    convOut # <<>> =>
        LET out == convOut[1].request.contents
        IN  \A t \in 1..Len(out) :
                (\E j \in 1..Len(out[t].parts) : out[t].parts[j].functionResponse # <<>>)
                    => \A j \in 1..Len(out[t].parts) :
                           out[t].parts[j].functionResponse # <<>>

-----------------------------------------------------------------------------
(* The two text channels of one writer, with heartbeats and tool calls in  *)
(* between and a client that may go away. One goroutine makes the calls;   *)
(* op["h"] keeps the call made last.                                       *)

\* the byte strings passed to a text channel: a whole character, the first
\* byte of a 2-byte character, the first two of a 3-byte one, a last byte
ChanChunks == {<<65>>, <<195>>, <<228, 128>>, <<128>>}

ChanOps ==
    {Op("WriteContent", c) : c \in ChanChunks}
    \cup {Op("WriteReasoning", c) : c \in ChanChunks}
    \cup {Op("WriteHeartbeat", <<>>), Op("WriteToolCalls", <<"call_1">>)}

ChanInit == Utf8Init

ChanFrame ==
    <<poolVars, mu, lastExtract, maxCarry, pc, seen, ret, wire,
      bypassVars, streamVars, convVars>>

\* one call of WriteContent, WriteReasoning, WriteHeartbeat or WriteToolCalls
ChanWrite ==
    /\ ~finished
    /\ ncalls < MaxCalls
    /\ \E o \in ChanOps :
        /\ sw' = ApplyOp(sw, o, sw.sentRole).sw
        /\ op' = [op EXCEPT !["h"] = o]
        /\ fedContent' = IF o.m = "WriteContent" THEN fedContent \o o.arg
                         ELSE fedContent
        /\ fedReasoning' = IF o.m = "WriteReasoning" THEN fedReasoning \o o.arg
                           ELSE fedReasoning
    /\ ncalls' = ncalls + 1
    /\ UNCHANGED <<ChanFrame, finished>>

\* the call of WriteFinish
ChanFinish ==
    /\ ~finished
    /\ sw' = WriteFinish(sw, "stop", <<>>).sw
    /\ op' = [op EXCEPT !["h"] = Op("WriteFinish", <<"stop", <<>>>>)]
    /\ finished' = TRUE
    /\ UNCHANGED <<ChanFrame, ncalls, fedContent, fedReasoning>>

\* the client goes away: every later write fails
ChanDisconnect ==
    /\ ~sw.w.broken
    /\ sw' = [sw EXCEPT !.w.broken = TRUE]
    /\ UNCHANGED <<ChanFrame, op, ncalls, finished, fedContent, fedReasoning>>

ChanNext == ChanWrite \/ ChanFinish \/ ChanDisconnect

SpecChannels == ChanInit /\ [][ChanNext]_vars

\* what a carry-over buffer can hold
Residues == {<<>>, <<195>>, <<228, 128>>, <<128>>}

\* the events a step has put on the wire
NewEvents == SubSeq(sw'.w.out, Len(sw.w.out) + 1, Len(sw'.w.out))

\* a call was made in this step
CallMade == ncalls' # ncalls \/ finished' # finished

\* C36: a call of WriteContent leaves the reasoning buffer as it was and
\* does the same whatever that buffer holds; a call of WriteReasoning
\* likewise for the content buffer; WriteHeartbeat and WriteToolCalls leave
\* both buffers as they were; and a WriteFinish whose finish event reaches
\* the wire has put before it, in the same call, the content residue as a
\* content delta and the reasoning residue as a reasoning delta, and
\* nothing else.
C36_ChannelsIndependent ==
    [][CallMade =>
        LET o == op'["h"]
        IN  /\ o.m = "WriteContent" =>
                   /\ sw'.reasoningBuffer = sw.reasoningBuffer
                   /\ \A rb \in Residues :
                          WriteContent([sw EXCEPT !.reasoningBuffer = rb], o.arg).sw
                              = [sw' EXCEPT !.reasoningBuffer = rb]
            /\ o.m = "WriteReasoning" =>
                   /\ sw'.contentBuffer = sw.contentBuffer
                   /\ \A cb \in Residues :
                          WriteReasoning([sw EXCEPT !.contentBuffer = cb], o.arg).sw
                              = [sw' EXCEPT !.contentBuffer = cb]
            /\ o.m \in {"WriteHeartbeat", "WriteToolCalls"} =>
                   /\ sw'.contentBuffer = sw.contentBuffer
                   /\ sw'.reasoningBuffer = sw.reasoningBuffer
            /\ (o.m = "WriteFinish" /\ CountOf(sw'.w.out, "finish") > 0) =>
                   LET n == Len(NewEvents)
                       before == SubSeq(NewEvents, 1, n - 2)
                   IN  /\ n >= 2
                       /\ NewEvents[n - 1].type = "finish"
                       /\ NewEvents[n] = DoneEvent
                       /\ Len(before) = (IF sw.contentBuffer # <<>> THEN 1 ELSE 0)
                                          + (IF sw.reasoningBuffer # <<>> THEN 1 ELSE 0)
                       /\ sw.contentBuffer # <<>> =>
                              \E i \in 1..Len(before) :
                                  before[i] = ContentEvent(sw.contentBuffer)
                       /\ sw.reasoningBuffer # <<>> =>
                              \E i \in 1..Len(before) :
                                  before[i] = ReasoningEvent(sw.reasoningBuffer)]_vars

\* both channels held a residue, a heartbeat came in between, and the
\* finish put both residues on the wire before the finish event
C36_Witness ==
    /\ finished
    /\ ~sw.w.broken
    /\ fedContent = <<195>>
    /\ fedReasoning = <<228, 128>>
    /\ CountOf(sw.w.out, "heartbeat") = 1
    /\ LET n == Len(sw.w.out)
       IN  /\ n >= 4
           /\ sw.w.out[n - 1].type = "finish"
           /\ {sw.w.out[n - 3], sw.w.out[n - 2]}
                  = {ContentEvent(<<195>>), ReasoningEvent(<<228, 128>>)}

-----------------------------------------------------------------------------
(* A successful upstream response without candidates.                      *)

\* the upstream call returned a response that holds no candidate
ZeroCandidates ==
    upstream # <<>> /\ ~upstream.err /\ Len(upstream.candidates) = 0

\* C37: after a successful upstream response without candidates the handler
\* does not panic, and when it has returned the client holds a completion
\* (single-shot) or a finish event followed by the sentinel (bypass),
\* unless it went away.
C37_ZeroCandidatesHandled ==
    ZeroCandidates =>
        /\ at["h"] # "panicked"
        /\ (at["h"] = "ns_returned" /\ ~sw.w.broken) =>
               \E i \in 1..Len(sw.w.out) : sw.w.out[i].type = "json"
        /\ (at["h"] = "returned" /\ ~sw.w.broken) =>
               /\ Len(sw.w.out) >= 2
               /\ sw.w.out[Len(sw.w.out)] = DoneEvent
               /\ sw.w.out[Len(sw.w.out) - 1].type = "finish"

-----------------------------------------------------------------------------
(* An import that is answered with an error.                               *)

\* C38: when the import request was answered with an error, the store
\* holds the accounts it held before the request.
C38_FailedImportKeepsPool ==
    (served # <<>> /\ Len(sw.w.out) = 1 /\ sw.w.out[1].type = "error_response") =>
        pool.accounts = pool.loaded

-----------------------------------------------------------------------------
(* A last line of the upstream stream with no newline after it.            *)

\* C39: when the stream ended with a payload line that has no newline after
\* it, the usage kept is the usage of that line, its text was passed to the
\* callback as a text chunk and its function call was delivered in a
\* tool_calls chunk.
C39_LastLineProcessed ==
    (tailLine # <<>> /\ at["h"] \in {"processed", "returned"}) =>
        LET data == tailLine[1].data[1]
        IN  /\ usage = data.usage
            /\ Len(data.candidates) > 0 =>
                   /\ \E i \in 1..Len(chunks) :
                          chunks[i].type = "text" /\ chunks[i].content = <<90>>
                   /\ \E i \in 1..Len(DeliveredCalls) :
                          DeliveredCalls[i].id = "call_tail"

====
